---- MODULE Spec2Model ----
(***************************************************************************)
(* PL/Rust user-code pipeline: catalog definition -> generated source ->   *)
(* cargo build -> module cache -> dispatch (src/src/plrust.rs), and the    *)
(* native loader FnReady (src/plrust/src/user_crate/ready.rs).             *)
(***************************************************************************)
EXTENDS Integers, Sequences, FiniteSets, Bags, TLC

VARIABLES
    catalog,        \* pg_proc: function oid -> definition row (or None)
    nextXid,        \* transaction id counter; a row's xmin is its version token
    crates,         \* work_dir/<crate_name>/ : Cargo.toml and src/lib.rs (or None)
    targetWasm,     \* work_dir/<crate_name>/target/wasm32-wasi/release/<crate>.wasm
    finalWasm,      \* work_dir/<crate_name>.wasm
    CACHE,          \* static mut CACHE: fn oid -> (Module, arg oids, ret oid)
    modules,        \* bag of compiled Module objects alive in this process
    call,           \* the frame of the entry point call that is executing, or Idle
    builders,       \* position of each compile_function call in flight
    last,           \* outcome of the last operation or step of one
    required_lints, \* plrust.required_lints GUC
    ready,          \* FnReady values alive (native loader)
    libraries,      \* the objects the dynamic loader has mapped, each under a name
    memfds,         \* anonymous memory file descriptors held open
    lastLoad,       \* outcome of the last build, FnReady::load or close
    loading,        \* the backend's position in FnReady::load / close
    built,          \* bag of the StateBuilt values no load has consumed yet
    generations,    \* crate name -> generations of the artifacts in the store
    host,           \* the platform and features this build of the extension has
    PLRUST_TARGET,  \* the process's environment variable PLRUST_TARGET
    TARGET_TUPLE,   \* static TARGET_TUPLE: Lazy<Result<CompilationTarget, TargetErr>>
    lastTuple,      \* outcome of the last target::tuple() or compilation_targets()
    PLRUST_COMPILATION_TARGETS,  \* plrust.compilation_targets GUC
    parseInput,     \* the source text last handed to parse_source_and_deps
    parseResult     \* what parse_source_and_deps returned for it

vars == <<catalog, nextXid, crates, targetWasm, finalWasm, CACHE, modules,
          call, builders, last, required_lints, ready, libraries, memfds,
          lastLoad, loading, built, generations, host, PLRUST_TARGET, TARGET_TUPLE, lastTuple,
          PLRUST_COMPILATION_TARGETS, parseInput,
          parseResult>>

pipelineVars == <<catalog, nextXid, crates, targetWasm, finalWasm, CACHE,
                  modules, call, builders, last>>
loaderVars == <<required_lints, ready, libraries, memfds, lastLoad, loading,
                built, generations>>
targetVars == <<host, PLRUST_TARGET, TARGET_TUPLE, lastTuple,
                PLRUST_COMPILATION_TARGETS>>
parseVars == <<parseInput, parseResult>>

None == [none |-> TRUE]
Panic(msg) == [panic |-> msg]
IsPanic(x) == "panic" \in DOMAIN x

(***************************************************************************)
(* Bounds                                                                  *)
(***************************************************************************)
MaxXid == 2          \* number of definitions ever written to the catalog
MaxReady == 2        \* FnReady values alive at once
MaxLines == 3        \* lines of a source text handed to the parser
MaxGen == 2          \* highest generation number a crate is built with
MaxBuilt == 2        \* StateBuilt values alive at once
MaxLeaked == 1       \* library handles a failed dlclose has left open
MaxTargetsLen == 4   \* pieces of text in a plrust.compilation_targets value

Fns == {"f1", "f2"}
Builders == {"b1", "b2"}

(***************************************************************************)
(* Source text                                                             *)
(***************************************************************************)
\* one line of prosrc: its text without surrounding blanks, and whether it
\* carries leading / trailing blanks
Ln(s) == [pre |-> FALSE, text |-> s, post |-> FALSE]
Indented(s) == [pre |-> TRUE, text |-> s, post |-> FALSE]

RECURSIVE DropLeadingBlank(_)
DropLeadingBlank(ls) ==
    IF ls = <<>> THEN <<>>
    ELSE IF Head(ls).text = "" THEN DropLeadingBlank(Tail(ls))
    ELSE <<[Head(ls) EXCEPT !.pre = FALSE]>> \o Tail(ls)

RECURSIVE DropTrailingBlank(_)
DropTrailingBlank(ls) ==
    IF ls = <<>> THEN <<>>
    ELSE IF ls[Len(ls)].text = "" THEN DropTrailingBlank(SubSeq(ls, 1, Len(ls) - 1))
    ELSE [ls EXCEPT ![Len(ls)].post = FALSE]

\* str::trim() followed by str::lines()
TrimLines(code) == DropTrailingBlank(DropLeadingBlank(code))

\* the loop with a [code] marker that does not end the dependency section
RECURSIVE ParseLines_sticky(_, _, _, _)
ParseLines_sticky(ls, in_deps, deps_block, code_block) ==
    IF ls = <<>> THEN [deps |-> deps_block, code |-> code_block]
    ELSE LET line == Head(ls)
             trimmed_line == line.text
         IN  IF trimmed_line = "[dependencies]"
                 THEN ParseLines_sticky(Tail(ls), TRUE, deps_block, code_block)
             ELSE IF trimmed_line = "[code]"
                 THEN ParseLines_sticky(Tail(ls), in_deps, deps_block, code_block)
             ELSE IF in_deps
                 THEN ParseLines_sticky(Tail(ls), in_deps, Append(deps_block, line),
                                        code_block)
             ELSE ParseLines_sticky(Tail(ls), in_deps, deps_block, Append(code_block, line))

RECURSIVE ParseLines(_, _, _, _)
ParseLines(ls, in_deps, deps_block, code_block) ==
    IF ls = <<>> THEN [deps |-> deps_block, code |-> code_block]
    ELSE LET line == Head(ls)
             trimmed_line == line.text
         IN  IF trimmed_line = "[dependencies]"
                 THEN ParseLines(Tail(ls), TRUE, deps_block, code_block)
             ELSE IF trimmed_line = "[code]"
                 THEN ParseLines(Tail(ls), FALSE, deps_block, code_block)
             ELSE IF in_deps
                 THEN ParseLines(Tail(ls), in_deps, Append(deps_block, line), code_block)
             ELSE ParseLines(Tail(ls), in_deps, deps_block, Append(code_block, line))

parse_source_and_deps(code) == ParseLines(TrimLines(code), FALSE, <<>>, <<>>)

(***************************************************************************)
(* Type mapping                                                            *)
(***************************************************************************)
\* pg_sys::get_element_type: the element type of an array type, else InvalidOid
get_element_type(oid) == IF oid = "INT4ARRAYOID" THEN "INT4OID" ELSE "InvalidOid"

oid_to_valtype(oid) ==
    IF oid \in {"InvalidOid", "Custom"} THEN Panic("not yet implemented")
    ELSE IF oid = "INT4OID" THEN [some |-> "I32"]
    ELSE IF oid = "INT8OID" THEN [some |-> "I64"]
    ELSE None

oid_to_valtype_and_ptr_marker(oid) ==
    LET v == oid_to_valtype(oid)
    IN  IF IsPanic(v) THEN v
        ELSE IF v = None THEN [valtype |-> "I64", ptr |-> TRUE]
        ELSE [valtype |-> v.some, ptr |-> FALSE]

valtype_to_syn_type(valtype) ==
    IF valtype = "I32" THEN [some |-> "i32"]
    ELSE IF valtype = "I64" THEN [some |-> "i64"]
    ELSE Panic("not yet implemented")

BaseRustType(base_oid, owned) ==
    CASE base_oid = "BOOLOID" -> [some |-> "bool"]
      [] base_oid = "FLOAT8OID" -> [some |-> "f64"]
      [] base_oid = "INT4OID" -> [some |-> "i32"]
      [] base_oid = "INT8OID" -> [some |-> "i64"]
      [] base_oid = "TEXTOID" -> [some |-> IF owned THEN "String" ELSE "&str"]
      [] base_oid = "VOIDOID" -> [some |-> "()"]
      [] OTHER -> None

\* the Rust type names Vec<Option<T>> and Array<T>
VecOptionOf(t) == IF t = "i32" THEN "Vec<Option<i32>>" ELSE "Vec<Option<_>>"
ArrayOf(t) == IF t = "i32" THEN "Array<i32>" ELSE "Array<_>"

oid_to_syn_type(type_oid, owned) ==
    LET array_type == get_element_type(type_oid)
        array == array_type # "InvalidOid"
        base_oid == IF array THEN array_type ELSE type_oid
        base == BaseRustType(base_oid, owned)
    IN  IF base = None THEN None
        ELSE IF array /\ owned THEN [some |-> VecOptionOf(base.some)]
        ELSE IF array THEN [some |-> ArrayOf(base.some)]
        ELSE base

(***************************************************************************)
(* Code generation                                                         *)
(***************************************************************************)
\* lines syn::parse_str accepts inside the braces of the user block
RustLines == {"", "a + b", "arg0", "arg0 + 1", "s.to_uppercase()", "1", "true", "n",
              "#[allow(unsafe_code)] unsafe fn g() {}"}

SynParsesBlock(code) == \A i \in 1..Len(code) : code[i].text \in RustLines

\* format!("arg{}", arg_idx): the index in decimal after the letters arg
ArgIdent(arg_name, arg_idx) ==
    LET RECURSIVE Decimal(_)
        Decimal(n) ==
            LET digit == <<"0", "1", "2", "3", "4", "5", "6", "7", "8", "9">>[(n % 10) + 1]
            IN  IF n < 10 THEN digit ELSE Decimal(n \div 10) \o digit
    IN  IF arg_name # "" THEN arg_name ELSE "arg" \o Decimal(arg_idx)

\* generation that passes every parameter and the result by handle
generate_function_source_all_encoded(fn_oid, code, args, return_type, is_set, is_strict) ==
    LET n == Len(args)
        arg_tys == [i \in 1..n |-> oid_to_syn_type(args[i].oid, TRUE)]
        user_fn_arg_idents == [i \in 1..n |-> ArgIdent(args[i].name, i - 1)]
        user_fn_return_tokens == oid_to_syn_type(return_type, TRUE)
        arg_valtypes == [i \in 1..n |->
                            IF IsPanic(oid_to_valtype(args[i].oid))
                                THEN oid_to_valtype(args[i].oid) ELSE None]
        ret_valtype == IF IsPanic(oid_to_valtype(return_type))
                           THEN oid_to_valtype(return_type) ELSE None
    IN  IF \E i \in 1..n : arg_tys[i] = None
            THEN Panic("called Option::unwrap() on a None value")
        ELSE IF ~SynParsesBlock(code) THEN Panic("Couldn't parse user code")
        ELSE IF user_fn_return_tokens = None THEN Panic("parse_quote: expected type")
        ELSE IF \E i \in 1..n : IsPanic(arg_valtypes[i]) THEN Panic("not yet implemented")
        ELSE IF IsPanic(ret_valtype) THEN ret_valtype
        ELSE [attrs |-> <<>>,
              user_fn |-> [ident |-> <<"plrust_fn_", fn_oid>>,
                           arg_idents |-> user_fn_arg_idents,
                           arg_types |-> [i \in 1..n |-> arg_tys[i].some],
                           ret |-> user_fn_return_tokens.some,
                           block |-> code],
              entry |-> [arg_idents |-> user_fn_arg_idents,
                         arg_types |-> [i \in 1..n |->
                              IF arg_valtypes[i] = None THEN "u64"
                              ELSE valtype_to_syn_type(arg_valtypes[i].some).some],
                         arg_transforms |-> [i \in 1..n |->
                              IF arg_valtypes[i] = None
                                  THEN "own_unpack_and_deserialize" ELSE "ident"],
                         ret |-> IF ret_valtype = None THEN "u64"
                                 ELSE valtype_to_syn_type(ret_valtype.some).some,
                         ret_transform |-> IF ret_valtype = None
                                 THEN "serialize_pack_and_leak" ELSE "retval"]]

\* args: sequence of [oid, name]; the result is the syn::File, or the panic
\* that aborts generation
generate_function_source(fn_oid, code, args, return_type, is_set, is_strict) ==
    LET n == Len(args)
        arg_tys == [i \in 1..n |-> oid_to_syn_type(args[i].oid, TRUE)]
        user_fn_arg_idents == [i \in 1..n |-> ArgIdent(args[i].name, i - 1)]
        user_fn_return_tokens == oid_to_syn_type(return_type, TRUE)
        arg_valtypes == [i \in 1..n |-> oid_to_valtype(args[i].oid)]
        ret_valtype == oid_to_valtype(return_type)
    IN  IF \E i \in 1..n : arg_tys[i] = None
            THEN Panic("called Option::unwrap() on a None value")
        ELSE IF ~SynParsesBlock(code) THEN Panic("Couldn't parse user code")
        ELSE IF user_fn_return_tokens = None THEN Panic("parse_quote: expected type")
        ELSE IF \E i \in 1..n : IsPanic(arg_valtypes[i]) THEN Panic("not yet implemented")
        ELSE IF IsPanic(ret_valtype) THEN ret_valtype
        ELSE [attrs |-> <<>>,
              user_fn |-> [ident |-> <<"plrust_fn_", fn_oid>>,
                           arg_idents |-> user_fn_arg_idents,
                           arg_types |-> [i \in 1..n |-> arg_tys[i].some],
                           ret |-> user_fn_return_tokens.some,
                           block |-> code],
              entry |-> [arg_idents |-> user_fn_arg_idents,
                         arg_types |-> [i \in 1..n |->
                              IF arg_valtypes[i] = None THEN "u64"
                              ELSE valtype_to_syn_type(arg_valtypes[i].some).some],
                         arg_transforms |-> [i \in 1..n |->
                              IF arg_valtypes[i] = None
                                  THEN "own_unpack_and_deserialize" ELSE "ident"],
                         ret |-> IF ret_valtype = None THEN "u64"
                                 ELSE valtype_to_syn_type(ret_valtype.some).some,
                         ret_transform |-> IF ret_valtype = None
                                 THEN "serialize_pack_and_leak" ELSE "retval"]]

\* the pg_proc row as extract_code_and_args returns it
extract_code_and_args(fn_oid) ==
    IF catalog[fn_oid] = None THEN Panic("cache lookup failed for function oid")
    ELSE LET row == catalog[fn_oid]
             parsed == parse_source_and_deps(row.prosrc)
         IN  [fn_oid |-> fn_oid,
              deps |-> parsed.deps,
              code |-> parsed.code,
              args |-> [i \in 1..Len(row.proargtypes) |->
                           [oid |-> row.proargtypes[i], name |-> row.proargnames[i]]],
              return_type |-> row.prorettype,
              is_set |-> row.proretset,
              is_strict |-> row.proisstrict,
              xmin |-> row.xmin]

crate_name(fn_oid) == <<"fn", "db", "ns", fn_oid>>
CrateNames == {crate_name(f) : f \in Fns}

(***************************************************************************)
(* Function definitions the catalog may hold                               *)
(***************************************************************************)
Row(argtypes, argnames, rettype, strict, src) ==
    [proargtypes |-> argtypes, proargnames |-> argnames, prorettype |-> rettype,
     proretset |-> FALSE, proisstrict |-> strict, prosrc |-> src]

DefAdd == Row(<<"INT8OID", "INT8OID">>, <<"a", "b">>, "INT8OID", TRUE, <<Ln("a + b")>>)
DefIdent == Row(<<"INT4OID">>, <<"">>, "INT4OID", FALSE, <<Ln("arg0")>>)
DefIncr == Row(<<"INT4OID">>, <<"">>, "INT4OID", TRUE, <<Ln("arg0 + 1")>>)
DefUpper == Row(<<"TEXTOID">>, <<"s">>, "TEXTOID", TRUE,
                <<Ln("[code]"), Indented("s.to_uppercase()")>>)
DefDep == Row(<<>>, <<>>, "INT4OID", FALSE,
              <<Ln("[dependencies]"), Ln("evil = '1'"), Ln("[code]"), Ln("1")>>)
DefLint == Row(<<"INT4OID">>, <<"">>, "INT4OID", FALSE,
               <<Ln("#[allow(unsafe_code)] unsafe fn g() {}"), Ln("arg0")>>)
DefBool == Row(<<>>, <<>>, "BOOLOID", FALSE, <<Ln("true")>>)
DefDate == Row(<<"DATEOID">>, <<"d">>, "INT4OID", FALSE, <<Ln("1")>>)
DefPick == Row(<<"TEXTOID", "INT4OID">>, <<"s", "n">>, "INT4OID", FALSE, <<Ln("n")>>)

Definitions == {DefAdd, DefIdent, DefIncr, DefUpper, DefDep, DefLint, DefBool, DefDate,
                DefPick}

\* plrust.allowed_dependencies: the crates the allow-list file names
PLRUST_ALLOWED_DEPENDENCIES_CONTENTS == {"rand"}

\* the crate a line of the dependency block names
DependencyName(line) ==
    IF line.text = "evil = '1'" THEN "evil"
    ELSE IF line.text = "rand = '0.8'" THEN "rand"
    ELSE ""

(***************************************************************************)
(* Compilation target (src/plrust/src/target.rs)                           *)
(***************************************************************************)
\* cfg of the build: std::env::consts::ARCH, target_vendor, target_os,
\* target_env and the cargo features that are enabled
HostOf(arch, vendor, os, env, features) ==
    [arch |-> arch, vendor |-> vendor, os |-> os, env |-> env,
     target_postgrestd |-> "target_postgrestd" \in features,
     force_enable_x86_64_darwin_generations |->
         "force_enable_x86_64_darwin_generations" \in features]

Hosts == {HostOf("x86_64", "unknown", "linux", "gnu", {"target_postgrestd"}),
          HostOf("x86_64", "unknown", "linux", "gnu", {}),
          HostOf("aarch64", "unknown", "linux", "musl", {"target_postgrestd"}),
          HostOf("x86_64", "apple", "macos", "", {}),
          HostOf("x86_64", "unknown", "linux", "gnu",
                 {"force_enable_x86_64_darwin_generations"}),
          HostOf("x86_64", "pc", "windows", "msvc", {}),
          HostOf("aarch64", "apple", "ios", "", {})}

HostEnv(h) == IF h.env = "gnu" THEN "gnu" ELSE IF h.env = "musl" THEN "musl" ELSE ""
HostVendor(h) ==
    IF h.target_postgrestd THEN "postgres"
    ELSE IF h.vendor = "apple" THEN "apple"
    ELSE IF h.os = "windows" THEN "pc"
    ELSE "unknown"
HostOs(h) == IF h.os = "macos" THEN "darwin" ELSE h.os

\* the components a tuple string is made of, joined by '-'
RECURSIVE PushNonEmpty(_, _)
PushNonEmpty(str, ts) ==
    IF ts = <<>> THEN str
    ELSE PushNonEmpty(IF Head(ts) # "" THEN Append(str, Head(ts)) ELSE str, Tail(ts))

target_tuple(h) ==
    LET tuple == <<h.arch, HostVendor(h), HostOs(h), HostEnv(h)>>
    IN  PushNonEmpty(<<tuple[1]>>, Tail(tuple))

\* env::var("PLRUST_TARGET")
NotPresent == [var_error |-> "NotPresent"]
NotUnicode(str) == [var_error |-> "NotUnicode", os_string |-> str]
EnvValues == {NotPresent, NotUnicode(<<"x86_64", "\\xFF">>),
              [ok |-> <<"x86_64", "unknown", "linux", "gnu">>],
              [ok |-> <<"aarch64", "postgres", "linux", "gnu">>]}

\* the closure Lazy::new runs on first access
ResolveTarget(h, var) ==
    IF "ok" \in DOMAIN var THEN [ok |-> var.ok]
    ELSE IF var = NotPresent
        THEN IF /\ h.target_postgrestd
                /\ h.arch \in {"x86_64", "aarch64"}
                /\ h.os = "linux"
                /\ h.env = "gnu"
                 THEN [ok |-> target_tuple(h)]
             ELSE IF h.target_postgrestd THEN [err |-> <<"Unsupported">>]
             ELSE [ok |-> target_tuple(h)]
    ELSE [err |-> <<"InvalidSpec", var.os_string>>]

Uninit == [uninit |-> TRUE]

IsOk(result) == "ok" \in DOMAIN result

(***************************************************************************)
(* Initial state                                                           *)
(***************************************************************************)
Idle == [pc |-> "idle"]

BUILTIN_LINTS == {"plrust_extern_blocks", "plrust_lifetime_parameterized_traits",
                  "implied_bounds_entailment", "unsafe_code", "unknown_lints"}

InitWith(h, compilation_targets_guc) ==
    /\ PLRUST_COMPILATION_TARGETS = compilation_targets_guc
    /\ catalog = [f \in Fns |-> None]
    /\ nextXid = 1
    /\ crates = [c \in CrateNames |-> None]
    /\ targetWasm = [c \in CrateNames |-> None]
    /\ finalWasm = [c \in CrateNames |-> None]
    /\ CACHE = [f \in Fns |-> None]
    /\ modules = EmptyBag
    /\ call = Idle
    /\ builders = [b \in Builders |-> Idle]
    /\ last = [op |-> "init"]
    /\ required_lints = BUILTIN_LINTS
    /\ ready = {}
    /\ libraries = {}
    /\ memfds = {}
    /\ lastLoad = [op |-> "init"]
    /\ loading = Idle
    /\ built = EmptyBag
    /\ generations = [c \in CrateNames |-> {}]
    /\ host = h
    /\ PLRUST_TARGET = NotPresent
    /\ TARGET_TUPLE = Uninit
    /\ lastTuple = [op |-> "init"]
    /\ parseInput = <<>>
    /\ parseResult = None

InitOn(h) == InitWith(h, None)

Init == InitOn(HostOf("x86_64", "unknown", "linux", "gnu", {}))


(***************************************************************************)
(* Catalog collaborator: CREATE OR REPLACE FUNCTION writes a new row       *)
(* version; the row's xmin is the writing transaction's id                 *)
(***************************************************************************)
CreateOrReplaceFunction(f, d) ==
    /\ nextXid <= MaxXid
    /\ catalog' = [catalog EXCEPT ![f] = [xmin |-> nextXid] @@ d]
    /\ nextXid' = nextXid + 1
    /\ last' = [op |-> "define", fn |-> f]
    /\ UNCHANGED <<crates, targetWasm, finalWasm, CACHE, modules, call, builders>>
    /\ UNCHANGED <<loaderVars, targetVars, parseVars>>

(***************************************************************************)
(* compile_function                                                        *)
(***************************************************************************)
\* create_function_crate: the files written under crate_dir, or the panic
create_function_crate(fn_oid, the_crate_name) ==
    LET ex == extract_code_and_args(fn_oid)
    IN  IF IsPanic(ex) THEN ex
        ELSE LET source_code == generate_function_source(ex.fn_oid, ex.code, ex.args,
                                    ex.return_type, ex.is_set, ex.is_strict)
             IN  IF IsPanic(source_code) THEN source_code
                 ELSE [cargo_toml |-> [name |-> the_crate_name,
                                       crate_type |-> "cdylib",
                                       dependencies |-> <<Ln("plrust_interface")>> \o ex.deps],
                       lib_rs |-> source_code,
                       \* provenance of lib.rs (not on disk)
                       xmin |-> ex.xmin,
                       args |-> ex.args,
                       return_type |-> ex.return_type]

\* a file of the crate directory: not there, created and still empty, or
\* holding what was written
Missing == [file |-> "missing"]
Truncated == [file |-> "empty"]
IsWritten(file) == "file" \notin DOMAIN file

\* the crate directory right after create_dir_all made it
EmptyDir == [cargo_toml |-> Missing, lib_rs |-> Missing,
             xmin |-> 0, args |-> <<>>, return_type |-> "InvalidOid"]
CrateDir(c) == IF crates[c] = None THEN EmptyDir ELSE crates[c]

\* compile_function from its start to the creation of Cargo.toml: the crate
\* directory is made, the row read and the source generated; fs::write opens
\* Cargo.toml truncated
CompileStart(b, f) ==
    /\ builders[b] = Idle
    /\ LET c == crate_name(f)
           written == create_function_crate(f, c)
       IN  IF IsPanic(written)
               THEN /\ crates' = [crates EXCEPT ![c] = CrateDir(c)]
                    /\ last' = [op |-> "compile", fn |-> f, result |-> written]
                    /\ UNCHANGED builders
               ELSE /\ crates' = [crates EXCEPT ![c] =
                                     [CrateDir(c) EXCEPT !.cargo_toml = Truncated]]
                    /\ builders' = [builders EXCEPT ![b] =
                           [pc |-> "write_cargo_toml", fn |-> f,
                            source_code |-> written.lib_rs,
                            manifest |-> written.cargo_toml,
                            written |-> written]]
                    /\ last' = [op |-> "create_cargo_toml", fn |-> f]
    /\ UNCHANGED <<catalog, nextXid, targetWasm, finalWasm, CACHE, modules, call>>
    /\ UNCHANGED <<loaderVars, targetVars, parseVars>>

\* create_function_crate: the manifest is written into Cargo.toml
WriteCargoToml(b) ==
    /\ builders[b].pc = "write_cargo_toml"
    /\ LET c == crate_name(builders[b].fn)
       IN  crates' = [crates EXCEPT ![c] =
                         [CrateDir(c) EXCEPT !.cargo_toml = builders[b].manifest]]
    /\ builders' = [builders EXCEPT ![b] = [@ EXCEPT !.pc = "create_lib_rs"]]
    /\ last' = [op |-> "write_cargo_toml", fn |-> builders[b].fn]
    /\ UNCHANGED <<catalog, nextXid, targetWasm, finalWasm, CACHE, modules, call>>
    /\ UNCHANGED <<loaderVars, targetVars, parseVars>>

\* create_function_crate: fs::write opens src/lib.rs truncated
CreateLibRs(b) ==
    /\ builders[b].pc = "create_lib_rs"
    /\ LET c == crate_name(builders[b].fn)
       IN  crates' = [crates EXCEPT ![c] =
                         [CrateDir(c) EXCEPT !.lib_rs = Truncated, !.xmin = 0,
                                             !.args = <<>>,
                                             !.return_type = "InvalidOid"]]
    /\ builders' = [builders EXCEPT ![b] = [@ EXCEPT !.pc = "write_lib_rs"]]
    /\ last' = [op |-> "create_lib_rs", fn |-> builders[b].fn]
    /\ UNCHANGED <<catalog, nextXid, targetWasm, finalWasm, CACHE, modules, call>>
    /\ UNCHANGED <<loaderVars, targetVars, parseVars>>

\* create_function_crate writes the source into src/lib.rs and returns;
\* compile_function starts cargo build, or panics when it cannot be started
WriteLibRs(b) ==
    /\ builders[b].pc = "write_lib_rs"
    /\ LET c == crate_name(builders[b].fn)
           w == builders[b].written
       IN  crates' = [crates EXCEPT ![c] =
                         [CrateDir(c) EXCEPT !.lib_rs = w.lib_rs, !.xmin = w.xmin,
                                             !.args = w.args,
                                             !.return_type = w.return_type]]
    /\ \E spawned \in BOOLEAN :
          IF spawned
              THEN /\ builders' = [builders EXCEPT ![b] =
                          [pc |-> "cargo", fn |-> builders[b].fn,
                           source_code |-> builders[b].source_code,
                           manifest |-> builders[b].manifest]]
                   /\ last' = [op |-> "spawn", fn |-> builders[b].fn]
              ELSE /\ builders' = [builders EXCEPT ![b] = Idle]
                   /\ last' = [op |-> "compile", fn |-> builders[b].fn,
                               result |-> Panic("failed to build function wasm module")]
    /\ UNCHANGED <<catalog, nextXid, targetWasm, finalWasm, CACHE, modules, call>>
    /\ UNCHANGED <<loaderVars, targetVars, parseVars>>

(***************************************************************************)
(* The external toolchain                                                  *)
(***************************************************************************)
IntTypes == {"i32", "i64"}

\* the expression the user block evaluates to: its last line
BodyExpr(block) == IF block = <<>> THEN "" ELSE block[Len(block)].text

TypeOfIdent(user_fn, id) ==
    IF \E i \in 1..Len(user_fn.arg_idents) : user_fn.arg_idents[i] = id
        THEN user_fn.arg_types[CHOOSE i \in 1..Len(user_fn.arg_idents) :
                                   user_fn.arg_idents[i] = id]
        ELSE "unresolved"

\* the type rustc infers for the user block
BodyType(user_fn) ==
    LET e == BodyExpr(user_fn.block)
    IN  CASE e = "a + b" ->
                 IF /\ TypeOfIdent(user_fn, "a") \in IntTypes
                    /\ TypeOfIdent(user_fn, "a") = TypeOfIdent(user_fn, "b")
                     THEN TypeOfIdent(user_fn, "a") ELSE "error"
          [] e = "arg0" -> TypeOfIdent(user_fn, "arg0")
          [] e = "arg0 + 1" ->
                 IF TypeOfIdent(user_fn, "arg0") \in IntTypes
                     THEN TypeOfIdent(user_fn, "arg0") ELSE "error"
          [] e = "s.to_uppercase()" ->
                 IF TypeOfIdent(user_fn, "s") = "String" THEN "String" ELSE "error"
          [] e = "n" -> TypeOfIdent(user_fn, "n")
          [] e = "1" -> "{integer}"
          [] e = "true" -> "bool"
          [] OTHER -> "()"

\* whether rustc accepts the generated lib.rs
RustcAccepts(lib_rs) ==
    LET t == BodyType(lib_rs.user_fn)
    IN  \/ t = lib_rs.user_fn.ret
        \/ t = "{integer}" /\ lib_rs.user_fn.ret \in IntTypes

\* whether cargo build can succeed on what the crate directory holds: a
\* manifest that is written, and a lib.rs that is empty (a crate without
\* items) or that rustc accepts
CargoAccepts(c) ==
    /\ crates[c] # None
    /\ IsWritten(crates[c].cargo_toml)
    /\ crates[c].lib_rs # Missing
    /\ crates[c].lib_rs = Truncated \/ RustcAccepts(crates[c].lib_rs)

\* a cargo run that writes the module straight to its final location
CargoRun_in_place(b) ==
    /\ builders[b].pc = "cargo"
    /\ \E ok \in BOOLEAN :
        LET c == crate_name(builders[b].fn)
            success == ok /\ CargoAccepts(c)
        IN  /\ finalWasm' = IF ok /\ crates[c] # None /\ crates[c].lib_rs # Missing
                   THEN [finalWasm EXCEPT ![c] =
                            [xmin |-> crates[c].xmin, lib_rs |-> crates[c].lib_rs]]
                   ELSE finalWasm
            /\ builders' = [builders EXCEPT ![b] =
                   [pc |-> "exited", fn |-> builders[b].fn,
                    source_code |-> builders[b].source_code,
                    manifest |-> builders[b].manifest, success |-> success]]
    /\ last' = [op |-> "cargo_exit", fn |-> builders[b].fn]
    /\ UNCHANGED <<catalog, nextXid, crates, targetWasm, CACHE, modules, call>>
    /\ UNCHANGED <<loaderVars, targetVars, parseVars>>

\* the cargo process of builder b runs to its exit: it builds what is in the
\* crate directory and, on success, leaves the module in the target directory
CargoRun(b) ==
    /\ builders[b].pc = "cargo"
    /\ \E ok \in BOOLEAN :
        LET c == crate_name(builders[b].fn)
            success == ok /\ CargoAccepts(c)
        IN  /\ targetWasm' = IF success
                   THEN [targetWasm EXCEPT ![c] =
                            [xmin |-> crates[c].xmin, lib_rs |-> crates[c].lib_rs]]
                   ELSE targetWasm
            /\ builders' = [builders EXCEPT ![b] =
                   [pc |-> "exited", fn |-> builders[b].fn,
                    source_code |-> builders[b].source_code,
                    manifest |-> builders[b].manifest, success |-> success]]
    /\ last' = [op |-> "cargo_exit", fn |-> builders[b].fn]
    /\ UNCHANGED <<catalog, nextXid, crates, finalWasm, CACHE, modules, call>>
    /\ UNCHANGED <<loaderVars, targetVars, parseVars>>

find_wasm_module(the_crate_name) ==
    IF targetWasm[the_crate_name] # None THEN [some |-> the_crate_name] ELSE None

\* compile_function after cargo build returned, up to the answer of
\* find_wasm_module
CompileFinish(b) ==
    /\ builders[b].pc = "exited"
    /\ LET f == builders[b].fn
           c == crate_name(f)
       IN  IF ~builders[b].success
               THEN /\ last' = [op |-> "compile", fn |-> f,
                                result |-> [err |-> <<"output", "-----------------",
                                                      builders[b].source_code>>]]
                    /\ builders' = [builders EXCEPT ![b] = Idle]
           ELSE IF find_wasm_module(c) # None
               THEN /\ builders' = [builders EXCEPT ![b] = [pc |-> "rename", fn |-> f]]
                    /\ last' = [op |-> "find_wasm_module", fn |-> f]
           ELSE /\ last' = [op |-> "compile", fn |-> f,
                            result |-> [err |-> <<"output">>]]
                /\ builders' = [builders EXCEPT ![b] = Idle]
    /\ UNCHANGED <<catalog, nextXid, crates, targetWasm, finalWasm, CACHE, modules, call>>
    /\ UNCHANGED <<loaderVars, targetVars, parseVars>>

\* compile_function: std::fs::rename of the module found to its final path,
\* or the panic when the module is no longer there
RenameModule(b) ==
    /\ builders[b].pc = "rename"
    /\ LET f == builders[b].fn
           c == crate_name(f)
       IN  IF targetWasm[c] # None
               THEN /\ finalWasm' = [finalWasm EXCEPT ![c] = targetWasm[c]]
                    /\ targetWasm' = [targetWasm EXCEPT ![c] = None]
                    /\ last' = [op |-> "compile", fn |-> f,
                                result |-> [ok |-> <<c, "output">>]]
               ELSE /\ last' = [op |-> "compile", fn |-> f,
                                result |-> Panic("unable to rename wasm module")]
                    /\ UNCHANGED <<targetWasm, finalWasm>>
    /\ builders' = [builders EXCEPT ![b] = Idle]
    /\ UNCHANGED <<catalog, nextXid, crates, CACHE, modules, call>>
    /\ UNCHANGED <<loaderVars, targetVars, parseVars>>

(***************************************************************************)
(* Values, guest memory and the length-prefixed encoding                   *)
(***************************************************************************)
Null == [k |-> "null"]
IntDatum(v) == [k |-> "int", v |-> v]
TextDatum(v) == [k |-> "text", v |-> v]

\* "hi" and "HI" as bytes
Hi == <<104, 105>>
HI == <<72, 73>>

ToUpper(c) == IF c >= 97 /\ c <= 122 THEN c - 32 ELSE c
to_uppercase(str) == [i \in 1..Len(str) |-> ToUpper(str[i])]

\* u64::to_le_bytes / from_le_bytes, for lengths below 2^24
LE8(n) == <<n % 256, (n \div 256) % 256, (n \div 65536) % 256, 0, 0, 0, 0, 0>>
FromLE8(b) == b[1] + 256 * b[2] + 65536 * b[3]
LE8InRange(b) == \A i \in 4..8 : b[i] = 0

Zeros(n) == [i \in 1..n |-> 0]

\* a fresh instance's linear memory; address a is element a + 1
InitialMemory == Zeros(8)

MemReadable(mem, addr, n) == addr >= 0 /\ n >= 0 /\ addr + n <= Len(mem)
MemRead(mem, addr, n) == SubSeq(mem, addr + 1, addr + n)
MemWrite(mem, addr, bytes) ==
    [i \in 1..Len(mem) |->
        IF i > addr /\ i <= addr + Len(bytes) THEN bytes[i - addr] ELSE mem[i]]

\* the module's exported allocator: a region of len bytes at the given alignment
guest_alloc(mem, len, align) ==
    LET ptr == ((Len(mem) + align - 1) \div align) * align
    IN  [ptr |-> ptr, mem |-> mem \o Zeros(ptr - Len(mem)) \o Zeros(len)]

\* bincode of a String: u64 length, then the bytes
bincode_serialize(str) == LE8(Len(str)) \o str
bincode_deserialize(bytes) ==
    IF Len(bytes) < 8 THEN None
    ELSE IF ~LE8InRange(SubSeq(bytes, 1, 8)) THEN None
    ELSE IF Len(bytes) # 8 + FromLE8(SubSeq(bytes, 1, 8)) THEN None
    ELSE [some |-> SubSeq(bytes, 9, Len(bytes))]

pack_with_len(bincoded) == LE8(Len(bincoded)) \o bincoded

\* pg_getarg: the argument at idx (0-based) read as the given kind; a read
\* past the arguments passed, or of a datum of another kind, yields junk
pg_getarg(fcinfo, idx, kind, junk) ==
    IF idx + 1 <= Len(fcinfo) /\ fcinfo[idx + 1].k \in {kind, "null"}
        THEN IF fcinfo[idx + 1] = Null THEN None ELSE [some |-> fcinfo[idx + 1].v]
        ELSE junk[kind]

JunkChoices == {[int |-> None, text |-> None],
                [int |-> [some |-> 7], text |-> [some |-> <<>>]]}

KindOf(oid) == IF oid \in {"INT4OID", "INT8OID"} THEN "int" ELSE "text"

\* whether every pg_getarg of a call with these cached arg oids reads an
\* argument that was passed, of the kind it is read as
ArgsInBounds(arg_oids, fcinfo) ==
    \A i \in 1..Len(arg_oids) :
        i <= Len(fcinfo) /\ fcinfo[i].k \in {KindOf(arg_oids[i]), "null"}

\* set_wasm_args that writes the encoding without its length prefix
set_wasm_args_unprefixed(oid, idx, fcinfo, st, junk) ==
    LET m == oid_to_valtype_and_ptr_marker(oid)
    IN  IF IsPanic(m) THEN m
        ELSE IF ~m.ptr
            THEN LET arg == pg_getarg(fcinfo, idx, "int", junk)
                 IN  IF arg = None THEN Panic("called Option::unwrap() on a None value")
                     ELSE [mem |-> st.mem,
                           buf |-> Append(st.buf, [ty |-> m.valtype, v |-> arg.some]),
                           allocs |-> st.allocs,
                           exports |-> st.exports]
        ELSE IF oid # "TEXTOID" THEN Panic("not yet implemented")
        ELSE LET arg == pg_getarg(fcinfo, idx, "text", junk)
             IN  IF arg = None THEN Panic("called Option::unwrap() on a None value")
                 ELSE IF ~st.exports
                     THEN Panic("called Result::unwrap() on an Err value")
                 ELSE LET packed == bincode_serialize(arg.some)
                          a == guest_alloc(st.mem, Len(packed), 8)
                      IN  [mem |-> MemWrite(a.mem, a.ptr, packed),
                           buf |-> Append(st.buf, [ty |-> "I64", v |-> a.ptr]),
                           allocs |-> Append(st.allocs,
                               [len |-> Len(packed), align |-> 8, ptr |-> a.ptr]),
                           exports |-> st.exports]

\* st: [mem, buf, allocs, exports]; exports says whether the instance has the
\* exports of a generated crate (guest_alloc, entry); the result is st with one more Val pushed (and the
\* call of guest_alloc it made recorded), or the panic
set_wasm_args(oid, idx, fcinfo, st, junk) ==
    LET m == oid_to_valtype_and_ptr_marker(oid)
    IN  IF IsPanic(m) THEN m
        ELSE IF ~m.ptr
            THEN LET arg == pg_getarg(fcinfo, idx, "int", junk)
                 IN  IF arg = None THEN Panic("called Option::unwrap() on a None value")
                     ELSE [mem |-> st.mem,
                           buf |-> Append(st.buf, [ty |-> m.valtype, v |-> arg.some]),
                           allocs |-> st.allocs,
                           exports |-> st.exports]
        ELSE IF oid # "TEXTOID" THEN Panic("not yet implemented")
        ELSE LET arg == pg_getarg(fcinfo, idx, "text", junk)
             IN  IF arg = None THEN Panic("called Option::unwrap() on a None value")
                 ELSE IF ~st.exports
                     THEN Panic("called Result::unwrap() on an Err value")
                 ELSE LET packed == pack_with_len(bincode_serialize(arg.some))
                          a == guest_alloc(st.mem, Len(packed), 8)
                      IN  [mem |-> MemWrite(a.mem, a.ptr, packed),
                           buf |-> Append(st.buf, [ty |-> "I64", v |-> a.ptr]),
                           allocs |-> Append(st.allocs,
                               [len |-> Len(packed), align |-> 8, ptr |-> a.ptr]),
                           exports |-> st.exports]

RECURSIVE SetAllArgs(_, _, _, _, _)
SetAllArgs(arg_oids, idx, fcinfo, st, junk) ==
    IF idx >= Len(arg_oids) \/ IsPanic(st) THEN st
    ELSE SetAllArgs(arg_oids, idx + 1, fcinfo,
                    set_wasm_args(arg_oids[idx + 1], idx, fcinfo, st, junk), junk)

set_wasm_ret(oid, buf) == Append(buf, [ty |-> "ExternRef", v |-> None])

(***************************************************************************)
(* The guest: the entry point of a compiled module                         *)
(***************************************************************************)
WasmType(syn_type) == IF syn_type = "i32" THEN "I32" ELSE "I64"

\* plrust_interface::own_unpack_and_deserialize: the value behind a handle
own_unpack_and_deserialize(mem, ptr, rust_type) ==
    IF ~MemReadable(mem, ptr, 8) THEN None
    ELSE IF ~LE8InRange(MemRead(mem, ptr, 8)) THEN None
    ELSE LET len == FromLE8(MemRead(mem, ptr, 8))
         IN  IF ~MemReadable(mem, ptr + 8, len) THEN None
             ELSE IF rust_type = "String"
                 THEN bincode_deserialize(MemRead(mem, ptr + 8, len))
             ELSE IF rust_type = "bool" /\ len = 1
                 THEN [some |-> (MemRead(mem, ptr + 8, 1)[1] = 1)]
             ELSE None

\* plrust_interface::serialize_pack_and_leak: the handle of the encoded value
serialize_pack_and_leak(mem, retval, rust_type) ==
    LET bincoded == IF rust_type = "String" THEN bincode_serialize(retval)
                    ELSE IF rust_type = "bool" THEN <<IF retval THEN 1 ELSE 0>>
                    ELSE <<>>
        packed == pack_with_len(bincoded)
        a == guest_alloc(mem, Len(packed), 8)
    IN  [ptr |-> a.ptr, mem |-> MemWrite(a.mem, a.ptr, packed)]

\* the value of the user block, its arguments bound to the wrapper's idents
UserFn(user_fn, argv) ==
    LET e == BodyExpr(user_fn.block)
        val(id) == argv[CHOOSE i \in 1..Len(user_fn.arg_idents) :
                            user_fn.arg_idents[i] = id]
    IN  CASE e = "a + b" -> val("a") + val("b")
          [] e = "arg0" -> val("arg0")
          [] e = "arg0 + 1" -> val("arg0") + 1
          [] e = "s.to_uppercase()" -> to_uppercase(val("s"))
          [] e = "n" -> val("n")
          [] e = "1" -> 1
          [] e = "true" -> TRUE
          [] OTHER -> 0

\* the generated entry: decode the handles, call the wrapper, encode the
\* return value; [trap] when a handle does not decode
GuestEntry(lib_rs, params, mem) ==
    LET n == Len(params)
        decoded == [i \in 1..n |->
            IF lib_rs.entry.arg_transforms[i] = "ident" THEN [some |-> params[i].v]
            ELSE own_unpack_and_deserialize(mem, params[i].v, lib_rs.user_fn.arg_types[i])]
    IN  IF \E i \in 1..n : decoded[i] = None THEN [trap |-> "unwrap failed in guest"]
        ELSE LET retval == UserFn(lib_rs.user_fn, [i \in 1..n |-> decoded[i].some])
             IN  IF lib_rs.entry.ret_transform = "retval"
                     THEN [ret |-> [ty |-> WasmType(lib_rs.entry.ret), v |-> retval],
                           mem |-> mem, retval |-> retval]
                     ELSE LET r == serialize_pack_and_leak(mem, retval, lib_rs.user_fn.ret)
                          IN  [ret |-> [ty |-> "I64", v |-> r.ptr], mem |-> r.mem,
                               retval |-> retval]

\* wasmtime's check of the parameters against the signature of entry
SignatureMatches(lib_rs, params) ==
    /\ Len(params) = Len(lib_rs.entry.arg_types)
    /\ \A i \in 1..Len(params) : params[i].ty = WasmType(lib_rs.entry.arg_types[i])

(***************************************************************************)
(* Execution cache and dispatcher                                          *)
(***************************************************************************)
\* the Module object compiled from the file at work_dir/<crate_name>.wasm
ModuleOf(fn_oid, wasm) == [fn |-> fn_oid, xmin |-> wasm.xmin, lib_rs |-> wasm.lib_rs]
ModuleId(module) == [fn |-> module.fn, xmin |-> module.xmin]

\* whether the module has the exports of a generated crate: one built from
\* an empty lib.rs has none
HasExports(module) == IsWritten(module.lib_rs)

\* the user block the module runs
BlockOf(module) == IF HasExports(module) THEN module.lib_rs.user_fn.block ELSE <<>>

initialize_cache_entry(fn_oid) ==
    LET wasm == finalWasm[crate_name(fn_oid)]
    IN  IF wasm = None THEN Panic("Could not set up module")
        ELSE IF catalog[fn_oid] = None THEN Panic("cache lookup failed for function oid")
        ELSE [module |-> ModuleOf(fn_oid, wasm),
              arg_oids |-> catalog[fn_oid].proargtypes,
              ret_oid |-> catalog[fn_oid].prorettype]

\* ReadReturn that takes the payload from the returned pointer itself
ReadReturn_no_skip(ret_oid, retv, mem) ==
    IF retv.ty = "I64"
        THEN IF ret_oid \in {"InvalidOid", "Custom"} THEN Panic("not yet implemented")
             ELSE IF ret_oid # "TEXTOID" THEN Panic("not yet implemented")
             ELSE LET guest_ptr == retv.v
                  IN  IF ~MemReadable(mem, guest_ptr, 8) THEN Panic("memory read")
                      ELSE IF ~LE8InRange(MemRead(mem, guest_ptr, 8)) THEN Panic("memory read")
                      ELSE LET length == FromLE8(MemRead(mem, guest_ptr, 8))
                           IN  IF ~MemReadable(mem, guest_ptr, length)
                                   THEN Panic("memory read")
                               ELSE LET val == bincode_deserialize(
                                                   MemRead(mem, guest_ptr, length))
                                    IN  IF val = None THEN Panic("deserialize")
                                        ELSE [datum |-> TextDatum(val.some)]
        ELSE [datum |-> IntDatum(retv.v)]

\* the Datum read off the result slot
ReadReturn(ret_oid, retv, mem) ==
    IF retv.ty = "I64"
        THEN IF ret_oid \in {"InvalidOid", "Custom"} THEN Panic("not yet implemented")
             ELSE IF ret_oid # "TEXTOID" THEN Panic("not yet implemented")
             ELSE LET guest_ptr == retv.v
                  IN  IF ~MemReadable(mem, guest_ptr, 8) THEN Panic("memory read")
                      ELSE IF ~LE8InRange(MemRead(mem, guest_ptr, 8)) THEN Panic("memory read")
                      ELSE LET length == FromLE8(MemRead(mem, guest_ptr, 8))
                           IN  IF ~MemReadable(mem, guest_ptr + 8, length)
                                   THEN Panic("memory read")
                               ELSE LET val == bincode_deserialize(
                                                   MemRead(mem, guest_ptr + 8, length))
                                    IN  IF val = None THEN Panic("deserialize")
                                        ELSE [datum |-> TextDatum(val.some)]
        ELSE [datum |-> IntDatum(retv.v)]

\* execute_wasm_function once the cache entry is at hand: the instance is made
\* first (LINKER.instantiate, which can fail), then the arguments are set
CallEntry(cache_entry, fcinfo, junk, instantiated) ==
    LET st == SetAllArgs(cache_entry.arg_oids, 0, fcinfo,
                         [mem |-> InitialMemory, buf |-> <<>>, allocs |-> <<>>,
                          exports |-> HasExports(cache_entry.module)], junk)
        ret == set_wasm_ret(cache_entry.ret_oid, <<>>)
    IN  IF ~instantiated
            THEN [outcome |-> "panic", called |-> FALSE, msg |-> "Could not instantiate"]
        ELSE IF IsPanic(st) THEN [outcome |-> "panic", called |-> FALSE, msg |-> st.panic]
        ELSE LET passed == [params |-> st.buf, args_mem |-> st.mem,
                            allocs |-> st.allocs]
             IN  IF ~HasExports(cache_entry.module)
                     THEN passed @@ [outcome |-> "panic", called |-> FALSE,
                                     msg |-> "Could not find function"]
                 ELSE IF ~SignatureMatches(cache_entry.module.lib_rs, st.buf)
                     THEN passed @@ [outcome |-> "panic", called |-> FALSE,
                                     msg |-> "Got an error"]
                 ELSE LET g == GuestEntry(cache_entry.module.lib_rs, st.buf, st.mem)
                      IN  IF "trap" \in DOMAIN g
                              THEN passed @@ [outcome |-> "panic", called |-> TRUE,
                                              msg |-> "Got an error"]
                          ELSE LET d == ReadReturn(cache_entry.ret_oid, g.ret, g.mem)
                                   returned == [retv |-> g.ret, ret_mem |-> g.mem,
                                                guest_retval |-> g.retval]
                               IN  IF IsPanic(d)
                                       THEN passed @@ returned @@
                                            [outcome |-> "panic", called |-> TRUE,
                                             msg |-> d.panic]
                                       ELSE passed @@ returned @@
                                            [outcome |-> "ok", called |-> TRUE,
                                             value |-> d.datum]

\* the values the host passes for the argument at idx (0-based) of this type:
\* null or a value, the integer 2 in the first place and 3 in the later ones
ValuesOf(oid, idx) ==
    IF oid \in {"INT4OID", "INT8OID"} THEN {IntDatum(IF idx = 0 THEN 2 ELSE 3), Null}
    ELSE IF oid = "TEXTOID" THEN {TextDatum(Hi), Null}
    ELSE {Null}

RECURSIVE ArgsFrom(_, _)
ArgsFrom(argtypes, idx) ==
    IF argtypes = <<>> THEN {<<>>}
    ELSE {<<x>> \o rest : x \in ValuesOf(Head(argtypes), idx),
                          rest \in ArgsFrom(Tail(argtypes), idx + 1)}

\* the argument lists the host passes for a function declared with these types
ArgsFor(argtypes) == ArgsFrom(argtypes, 0)

\* the argument list of nulls
NullArgs(argtypes) == [i \in 1..Len(argtypes) |-> Null]

\* the junk reads a call can make: none unless the cached arg oids disagree
\* with the arguments passed
JunkFor(fn_oid, fcinfo) ==
    IF CACHE[fn_oid] # None /\ ~ArgsInBounds(CACHE[fn_oid].arg_oids, fcinfo)
        THEN JunkChoices
        ELSE {[int |-> None, text |-> None]}

\* The frames of the calls in flight, innermost first. A frame holds the
\* references execute_wasm_function took into the CACHE slot of its entry
\* before the call. CACHE.remove leaves them dangling: the bucket is not freed
\* by remove (the table does not shrink) and keeps the bytes of the removed
\* entry until an insert writes an entry into it. reads is what a read of
\* ret_oid through the frame's reference can give: the ret_oid the entry had,
\* and the ret_oid of every entry inserted since the frame's entry was removed
\* (whether an insert lands in the bucket is the hasher's choice)
RECURSIVE Removed(_, _)
Removed(frame, fn_oid) ==
    IF frame = Idle THEN Idle
    ELSE [frame EXCEPT !.removed = @ \/ frame.fn = fn_oid,
                       !.outer = Removed(@, fn_oid)]

RECURSIVE Inserted(_, _)
Inserted(frame, ret_oid) ==
    IF frame = Idle THEN Idle
    ELSE [frame EXCEPT !.reads = IF frame.removed THEN @ \cup {ret_oid} ELSE @,
                       !.outer = Inserted(@, ret_oid)]

\* execute_wasm_function that empties the cache when an invocation fails
execute_wasm_function_evicts(fn_oid, fcinfo, junk, instantiated) ==
    /\ LET hit == CACHE[fn_oid] # None
           cache_entry == IF hit THEN CACHE[fn_oid] ELSE initialize_cache_entry(fn_oid)
           row == catalog[fn_oid]
           about == [op |-> "invoke", fn |-> fn_oid, args |-> fcinfo, hit |-> hit,
                     is_strict |-> IF row = None THEN FALSE ELSE row.proisstrict,
                     cat_xmin |-> IF row = None THEN 0 ELSE row.xmin]
       IN  IF IsPanic(cache_entry)
               THEN /\ last' = about @@ [outcome |-> "panic", called |-> FALSE,
                                         msg |-> cache_entry.panic, ran_xmin |-> 0]
                    /\ UNCHANGED <<CACHE, modules, call>>
               ELSE LET result == about @@ CallEntry(cache_entry, fcinfo, junk, instantiated)
                                     @@ [ran_xmin |-> cache_entry.module.xmin,
                                         arg_oids |-> cache_entry.arg_oids,
                                         ret_oid |-> cache_entry.ret_oid,
                                         ran_block |-> BlockOf(cache_entry.module)]
                    IN  /\ CACHE' = IF result.outcome = "panic" THEN [g \in Fns |-> None]
                                  ELSE [CACHE EXCEPT ![fn_oid] = cache_entry]
                        /\ modules' = IF result.outcome = "panic" THEN EmptyBag
                                      ELSE IF hit THEN modules
                                      ELSE modules (+) SetToBag({ModuleId(cache_entry.module)})
                        /\ IF result.called
                               THEN /\ call' = [pc |-> "entry", fn |-> fn_oid,
                                                module |-> ModuleId(cache_entry.module),
                                                result |-> result, removed |-> FALSE,
                                                reads |-> {cache_entry.ret_oid},
                                                outer |-> call]
                                    /\ last' = [op |-> "call", fn |-> fn_oid]
                               ELSE /\ last' = result
                                    /\ call' = call
    /\ UNCHANGED <<catalog, nextXid, crates, targetWasm, finalWasm, builders>>
    /\ UNCHANGED <<loaderVars, targetVars, parseVars>>

\* execute_wasm_function that sets the module up again on every call
execute_wasm_function_recompiles(fn_oid, fcinfo, junk, instantiated) ==
    /\ LET hit == CACHE[fn_oid] # None
           cache_entry == initialize_cache_entry(fn_oid)
           row == catalog[fn_oid]
           about == [op |-> "invoke", fn |-> fn_oid, args |-> fcinfo, hit |-> hit,
                     is_strict |-> IF row = None THEN FALSE ELSE row.proisstrict,
                     cat_xmin |-> IF row = None THEN 0 ELSE row.xmin]
       IN  IF IsPanic(cache_entry)
               THEN /\ last' = about @@ [outcome |-> "panic", called |-> FALSE,
                                         msg |-> cache_entry.panic, ran_xmin |-> 0]
                    /\ UNCHANGED <<CACHE, modules, call>>
               ELSE LET result == about @@ CallEntry(cache_entry, fcinfo, junk, instantiated)
                                     @@ [ran_xmin |-> cache_entry.module.xmin,
                                         arg_oids |-> cache_entry.arg_oids,
                                         ret_oid |-> cache_entry.ret_oid,
                                         ran_block |-> BlockOf(cache_entry.module)]
                    IN  /\ CACHE' = [CACHE EXCEPT ![fn_oid] = cache_entry]
                        /\ modules' = modules (+) SetToBag({ModuleId(cache_entry.module)})
                        /\ IF result.called
                               THEN /\ call' = [pc |-> "entry", fn |-> fn_oid,
                                                module |-> ModuleId(cache_entry.module),
                                                result |-> result, removed |-> FALSE,
                                                reads |-> {cache_entry.ret_oid},
                                                outer |-> Inserted(call, cache_entry.ret_oid)]
                                    /\ last' = [op |-> "call", fn |-> fn_oid]
                               ELSE /\ last' = result
                                    /\ call' = Inserted(call, cache_entry.ret_oid)
    /\ UNCHANGED <<catalog, nextXid, crates, targetWasm, finalWasm, builders>>
    /\ UNCHANGED <<loaderVars, targetVars, parseVars>>

\* execute_wasm_function up to and including the call of the entry point. The
\* frame of the call keeps the frame it was entered from (outer): the function
\* itself does not ask whether a call is already in flight
execute_wasm_function(fn_oid, fcinfo, junk, instantiated) ==
    /\ LET hit == CACHE[fn_oid] # None
           cache_entry == IF hit THEN CACHE[fn_oid] ELSE initialize_cache_entry(fn_oid)
           row == catalog[fn_oid]
           about == [op |-> "invoke", fn |-> fn_oid, args |-> fcinfo, hit |-> hit,
                     is_strict |-> IF row = None THEN FALSE ELSE row.proisstrict,
                     cat_xmin |-> IF row = None THEN 0 ELSE row.xmin]
       IN  IF IsPanic(cache_entry)
               THEN /\ last' = about @@ [outcome |-> "panic", called |-> FALSE,
                                         msg |-> cache_entry.panic, ran_xmin |-> 0]
                    /\ UNCHANGED <<CACHE, modules, call>>
               ELSE LET result == about @@ CallEntry(cache_entry, fcinfo, junk, instantiated)
                                     @@ [ran_xmin |-> cache_entry.module.xmin,
                                         arg_oids |-> cache_entry.arg_oids,
                                         ret_oid |-> cache_entry.ret_oid,
                                         ran_block |-> BlockOf(cache_entry.module)]
                    IN  /\ CACHE' = [CACHE EXCEPT ![fn_oid] = cache_entry]
                        /\ modules' = IF hit THEN modules
                                      ELSE modules (+) SetToBag({ModuleId(cache_entry.module)})
                        /\ IF result.called
                               THEN /\ call' = [pc |-> "entry", fn |-> fn_oid,
                                                module |-> ModuleId(cache_entry.module),
                                                result |-> result, removed |-> FALSE,
                                                reads |-> {cache_entry.ret_oid},
                                                outer |-> (IF hit THEN call ELSE Inserted(call, cache_entry.ret_oid))]
                                    /\ last' = [op |-> "call", fn |-> fn_oid]
                               ELSE /\ last' = result
                                    /\ call' = (IF hit THEN call ELSE Inserted(call, cache_entry.ret_oid))
    /\ UNCHANGED <<catalog, nextXid, crates, targetWasm, finalWasm, builders>>
    /\ UNCHANGED <<loaderVars, targetVars, parseVars>>

\* the values a read of ret_oid can give once the entry point has returned:
\* the one value the entry holds while it is in the cache, and after its
\* removal what the bucket may hold by now
RetOidRead(frame) == frame.reads

\* the result of a call whose return value is read as a ret_oid
Returned(result, ret_oid) ==
    IF "retv" \notin DOMAIN result \/ ret_oid = result.ret_oid THEN result
    ELSE LET d == ReadReturn(ret_oid, result.retv, result.ret_mem)
             kept == [op |-> result.op, fn |-> result.fn, args |-> result.args,
                      hit |-> result.hit, is_strict |-> result.is_strict,
                      cat_xmin |-> result.cat_xmin, params |-> result.params,
                      args_mem |-> result.args_mem, allocs |-> result.allocs,
                      retv |-> result.retv, ret_mem |-> result.ret_mem,
                      guest_retval |-> result.guest_retval, called |-> TRUE,
                      ran_xmin |-> result.ran_xmin, arg_oids |-> result.arg_oids,
                      ret_oid |-> ret_oid, ran_block |-> result.ran_block]
         IN  IF IsPanic(d) THEN kept @@ [outcome |-> "panic", msg |-> d.panic]
             ELSE kept @@ [outcome |-> "ok", value |-> d.datum]

\* execute_wasm_function from the return of the entry point: the result slot is
\* read and the Datum handed back
execute_wasm_function_return ==
    /\ call.pc = "entry"
    /\ \E ret_oid \in RetOidRead(call) : last' = Returned(call.result, ret_oid)
    /\ call' = call.outer
    /\ UNCHANGED <<catalog, nextXid, crates, targetWasm, finalWasm, CACHE, modules,
                   builders>>
    /\ UNCHANGED <<loaderVars, targetVars, parseVars>>

\* unload that forgets the removed Module instead of dropping it
unload_function_leak(fn_oid) ==
    /\ CACHE' = [CACHE EXCEPT ![fn_oid] = None]
    /\ modules' = modules
    /\ last' = [op |-> "unload", fn |-> fn_oid, was_present |-> CACHE[fn_oid] # None]
    /\ call' = Removed(call, fn_oid)
    /\ UNCHANGED <<catalog, nextXid, crates, targetWasm, finalWasm, builders>>
    /\ UNCHANGED <<loaderVars, targetVars, parseVars>>

\* unload that clears the whole cache
unload_function_clear(fn_oid) ==
    /\ CACHE' = [g \in Fns |-> None]
    /\ modules' = EmptyBag
    /\ last' = [op |-> "unload", fn |-> fn_oid, was_present |-> CACHE[fn_oid] # None]
    /\ call' = Removed(call, fn_oid)
    /\ UNCHANGED <<catalog, nextXid, crates, targetWasm, finalWasm, builders>>
    /\ UNCHANGED <<loaderVars, targetVars, parseVars>>

\* unload_function: CACHE.remove, whatever the backend is doing; the removed
\* entry's Module is dropped with it
unload_function(fn_oid) ==
    /\ CACHE' = [CACHE EXCEPT ![fn_oid] = None]
    /\ modules' = IF CACHE[fn_oid] = None THEN modules
                  ELSE modules (-) SetToBag({ModuleId(CACHE[fn_oid].module)})
    /\ last' = [op |-> "unload", fn |-> fn_oid, was_present |-> CACHE[fn_oid] # None]
    /\ call' = Removed(call, fn_oid)
    /\ UNCHANGED <<catalog, nextXid, crates, targetWasm, finalWasm, builders>>
    /\ UNCHANGED <<loaderVars, targetVars, parseVars>>

(***************************************************************************)
(* target::tuple and the process environment                               *)
(***************************************************************************)
\* tuple(): Lazy runs its closure on the first access and keeps what it
\* returned, Ok or Err, for every later access
tuple ==
    LET fresh == ResolveTarget(host, PLRUST_TARGET)
        result == IF TARGET_TUPLE = Uninit THEN fresh ELSE TARGET_TUPLE
    IN  /\ TARGET_TUPLE' = result
        /\ lastTuple' = [op |-> "tuple", before |-> TARGET_TUPLE, result |-> result,
                         fresh |-> fresh]
        /\ UNCHANGED <<host, PLRUST_TARGET, PLRUST_COMPILATION_TARGETS>>
        /\ UNCHANGED <<pipelineVars, loaderVars, parseVars>>

\* the process environment changes (std::env::set_var, remove_var)
SetEnv(var) ==
    /\ PLRUST_TARGET' = var
    /\ lastTuple' = [op |-> "setenv"]
    /\ UNCHANGED <<host, TARGET_TUPLE, PLRUST_COMPILATION_TARGETS>>
    /\ UNCHANGED <<pipelineVars, loaderVars, parseVars>>

NextTarget ==
    \/ tuple
    \/ \E var \in EnvValues : SetEnv(var)

\* the extension built for any of the hosts
SpecTarget == (\E h \in Hosts : InitOn(h)) /\ [][NextTarget]_vars

(***************************************************************************)
(* gucs::compilation_targets                                               *)
(***************************************************************************)
\* a GUC value is a sequence of pieces: a word, a blank or a comma
GucStrings ==
    UNION {[1..n -> {"x86_64", "aarch64", "riscv64", " ", ","}] : n \in 0..MaxTargetsLen}
GucValues == {None} \cup {[some |-> str] : str \in GucStrings}

\* str::split(','): the pieces between the commas, empty ones included
RECURSIVE SplitFrom(_, _, _)
SplitFrom(str, i, current) ==
    IF i > Len(str) THEN <<current>>
    ELSE IF str[i] = "," THEN <<current>> \o SplitFrom(str, i + 1, <<>>)
    ELSE SplitFrom(str, i + 1, Append(current, str[i]))
split(str) == SplitFrom(str, 1, <<>>)

\* str::trim: the blanks at both ends removed
RECURSIVE trim(_)
trim(str) ==
    IF str = <<>> THEN str
    ELSE IF Head(str) = " " THEN trim(Tail(str))
    ELSE IF str[Len(str)] = " " THEN trim(SubSeq(str, 1, Len(str) - 1))
    ELSE str

\* TryFrom<&str> for CrossCompilationTarget
CrossCompilationTarget_try_from(str) ==
    IF str = <<"x86_64">> THEN [ok |-> [cross |-> "X86_64"]]
    ELSE IF str = <<"aarch64">> THEN [ok |-> [cross |-> "Aarch64"]]
    ELSE [err |-> <<"Unsupported">>]

\* the architecture a CrossCompilationTarget stands for
CrossArch(target) == IF target.cross = "X86_64" THEN "x86_64" ELSE "aarch64"

\* collect::<Result<Vec<_>, _>>: the values, or the first error
RECURSIVE Collect(_)
Collect(results) ==
    IF results = <<>> THEN [ok |-> <<>>]
    ELSE IF ~IsOk(Head(results)) THEN Head(results)
    ELSE LET rest == Collect(Tail(results))
         IN  IF IsOk(rest) THEN [ok |-> <<Head(results).ok>> \o rest.ok] ELSE rest

\* the other targets, with the entries naming this architecture kept
OtherTargets_unfiltered(targets, arch) ==
    LET entries == split(targets)
        trimmed == [i \in 1..Len(entries) |-> trim(entries[i])]
    IN  Collect([i \in 1..Len(trimmed) |-> CrossCompilationTarget_try_from(trimmed[i])])

\* targets.split(',').map(str::trim).filter(|s| s != ARCH).map(try_into).collect()
OtherTargets(targets, arch) ==
    LET entries == split(targets)
        trimmed == [i \in 1..Len(entries) |-> trim(entries[i])]
        foreign == SelectSeq(trimmed, LAMBDA e : e # <<arch>>)
    IN  Collect([i \in 1..Len(foreign) |-> CrossCompilationTarget_try_from(foreign[i])])

compilation_targets ==
    LET this_target == IF TARGET_TUPLE = Uninit THEN ResolveTarget(host, PLRUST_TARGET)
                       ELSE TARGET_TUPLE
        other_targets == IF PLRUST_COMPILATION_TARGETS = None THEN [ok |-> <<>>]
                         ELSE OtherTargets(PLRUST_COMPILATION_TARGETS.some, host.arch)
        about == [op |-> "compilation_targets"]
    IN  /\ TARGET_TUPLE' = this_target
        /\ lastTuple' =
               IF ~IsOk(this_target) THEN about @@ [err |-> this_target.err]
               ELSE IF ~IsOk(other_targets) THEN about @@ [err |-> other_targets.err]
               ELSE about @@ [ok |-> [this |-> this_target.ok, others |-> other_targets.ok]]
        /\ UNCHANGED <<host, PLRUST_TARGET, PLRUST_COMPILATION_TARGETS>>
        /\ UNCHANGED <<pipelineVars, loaderVars, parseVars>>

\* the hosts and the values of the GUC the server may be started with
InitTargets == \E h \in Hosts, guc \in GucValues : InitWith(h, guc)

NextTargets ==
    \/ compilation_targets
    \/ tuple

SpecTargets == InitTargets /\ [][NextTargets]_vars

(***************************************************************************)
(* Native backend: StateProvisioned::build, FnReady::load and close        *)
(***************************************************************************)
\* the configuration is reloaded with another plrust.required_lints
SetRequiredLints(lints) ==
    /\ required_lints' = lints
    /\ lastLoad' = [op |-> "config"]
    /\ UNCHANGED <<ready, libraries, memfds, loading, built, generations>>
    /\ UNCHANGED <<pipelineVars, targetVars, parseVars>>

\* cfg(any(all(target_os = "macos", target_arch = "x86_64"),
\*         feature = "force_enable_x86_64_darwin_generations"))
NeedsGenerations(h) ==
    \/ h.os = "macos" /\ h.arch = "x86_64"
    \/ h.force_enable_x86_64_darwin_generations

Max(S) == CHOOSE n \in S : \A m \in S : m <= n

\* crate::generation: the highest generation whose artifact is in the store
\* (generations), and the one after it
latest_generation(the_crate_name) ==
    IF generations[the_crate_name] = {} THEN [err |-> "NoGenerations"]
    ELSE [ok |-> Max(generations[the_crate_name])]
next_generation(the_crate_name) ==
    LET latest == latest_generation(the_crate_name)
    IN  IF IsOk(latest) THEN [ok |-> latest.ok + 1] ELSE [ok |-> 0]

\* Result::unwrap_or_default of a generation number
unwrap_or_default(result) == IF IsOk(result) THEN result.ok ELSE 0

\* a crate name with _<generation> pushed onto it (generation -1: as it is)
Generation(the_crate_name, generation) ==
    [crate_name |-> the_crate_name, generation |-> generation]
Wrapper(name) == [of |-> name, suffix |-> "_wrapper"]

\* what Command::output returns: the exit status and whether the bytes of
\* each stream are UTF-8
CargoOutput(success, stdout_utf8, stderr_utf8) ==
    [status_success |-> success, stdout_utf8 |-> stdout_utf8, stderr_utf8 |-> stderr_utf8]
CargoOutputs == {CargoOutput(TRUE, TRUE, TRUE), CargoOutput(FALSE, TRUE, TRUE),
                 CargoOutput(FALSE, FALSE, TRUE), CargoOutput(FALSE, TRUE, FALSE)}

\* crate_dir/src/lib.rs of the crate of fn_oid
lib_rs_of(fn_oid) == <<crate_name(fn_oid), "src", "lib.rs">>

\* build up to the start of cargo: the target is resolved (once per process),
\* the command is put together and Command::output starts the child, or fails
StateProvisioned_build(fn_oid) ==
    /\ LET target == IF TARGET_TUPLE = Uninit THEN ResolveTarget(host, PLRUST_TARGET)
                     ELSE TARGET_TUPLE
           about == [op |-> "build", fn |-> fn_oid]
       IN  /\ TARGET_TUPLE' = target
           /\ IF ~IsOk(target)
                  THEN /\ lastLoad' = about @@ [result |-> "err", why |-> target.err]
                       /\ UNCHANGED loading
                  ELSE \E spawned \in BOOLEAN :
                         IF spawned
                             THEN /\ loading' = [pc |-> "cargo", fn |-> fn_oid,
                                                  target |-> target.ok]
                                  /\ lastLoad' = [op |-> "spawn", fn |-> fn_oid]
                             ELSE /\ lastLoad' = about @@
                                         [result |-> "err",
                                          why |-> <<"cargo execution failure">>]
                                  /\ UNCHANGED loading
    /\ UNCHANGED <<required_lints, ready, libraries, memfds, built, generations>>
    /\ UNCHANGED <<host, PLRUST_TARGET, lastTuple, PLRUST_COMPILATION_TARGETS>>
    /\ UNCHANGED <<pipelineVars, parseVars>>

\* StateBuilt::new
StateBuilt_new(fn_oid, shared_object) == [fn_oid |-> fn_oid, shared_object |-> shared_object]

\* build that takes a run whose output it cannot decode for a success
StateProvisioned_build_returns_unchecked ==
    /\ loading.pc = "cargo"
    /\ LET fn_oid == loading.fn
           about == [op |-> "build", fn |-> fn_oid]
       IN  \E output \in CargoOutputs :
               IF output.status_success \/ ~output.stdout_utf8
                   THEN LET next == IF NeedsGenerations(host)
                                        THEN unwrap_or_default(
                                                 next_generation(crate_name(fn_oid)))
                                        ELSE -1
                            name == Generation(crate_name(fn_oid), next)
                        IN  /\ built' = built (+) SetToBag({StateBuilt_new(
                                            fn_oid,
                                            [path |-> <<loading.target, "release", name>>,
                                             image_ok |-> TRUE,
                                             symbols |-> {Wrapper(name)}])})
                            /\ lastLoad' = about @@ [result |-> "ok",
                                                     generation |-> next,
                                                     target |-> loading.target,
                                                     output |-> output]
                   ELSE /\ IF ~output.stdout_utf8
                               THEN lastLoad' = about @@ [result |-> "err",
                                                          why |-> <<"stdout was not UTF-8">>,
                                                          sections |-> <<>>,
                                                          output |-> output]
                           ELSE IF ~output.stderr_utf8
                               THEN lastLoad' = about @@ [result |-> "err",
                                                          why |-> <<"stderr was not UTF-8">>,
                                                          sections |-> <<>>,
                                                          output |-> output]
                           ELSE \E lib_rs_read \in BOOLEAN :
                                   lastLoad' =
                                       IF lib_rs_read
                                           THEN about @@ [result |-> "err",
                                                          why |-> <<"CargoBuildFail">>,
                                                          sections |-> <<"stdout", "stderr",
                                                                         lib_rs_of(fn_oid)>>,
                                                          output |-> output]
                                           ELSE about @@ [result |-> "panic",
                                                          msg |-> "Reading generated lib.rs to output during error",
                                                          output |-> output]
                        /\ UNCHANGED built
    /\ loading' = Idle
    /\ UNCHANGED <<required_lints, ready, libraries, memfds, generations>>
    /\ UNCHANGED <<targetVars, pipelineVars, parseVars>>

\* build from the exit of cargo: on success a StateBuilt with the path of the
\* shared object (named with the next generation where the platform needs
\* one; the generation is only read, build stores nothing), on failure the
\* error made of the two streams and the generated source
StateProvisioned_build_returns ==
    /\ loading.pc = "cargo"
    /\ LET fn_oid == loading.fn
           about == [op |-> "build", fn |-> fn_oid]
       IN  \E output \in CargoOutputs :
               IF output.status_success
                   THEN LET next == IF NeedsGenerations(host)
                                        THEN unwrap_or_default(
                                                 next_generation(crate_name(fn_oid)))
                                        ELSE -1
                            name == Generation(crate_name(fn_oid), next)
                        IN  /\ built' = built (+) SetToBag({StateBuilt_new(
                                            fn_oid,
                                            [path |-> <<loading.target, "release", name>>,
                                             image_ok |-> TRUE,
                                             symbols |-> {Wrapper(name)}])})
                            /\ lastLoad' = about @@ [result |-> "ok",
                                                     generation |-> next,
                                                     target |-> loading.target,
                                                     output |-> output]
                   ELSE /\ IF ~output.stdout_utf8
                               THEN lastLoad' = about @@ [result |-> "err",
                                                          why |-> <<"stdout was not UTF-8">>,
                                                          sections |-> <<>>,
                                                          output |-> output]
                           ELSE IF ~output.stderr_utf8
                               THEN lastLoad' = about @@ [result |-> "err",
                                                          why |-> <<"stderr was not UTF-8">>,
                                                          sections |-> <<>>,
                                                          output |-> output]
                           ELSE \E lib_rs_read \in BOOLEAN :
                                   lastLoad' =
                                       IF lib_rs_read
                                           THEN about @@ [result |-> "err",
                                                          why |-> <<"CargoBuildFail">>,
                                                          sections |-> <<"stdout", "stderr",
                                                                         lib_rs_of(fn_oid)>>,
                                                          output |-> output]
                                           ELSE about @@ [result |-> "panic",
                                                          msg |-> "Reading generated lib.rs to output during error",
                                                          output |-> output]
                        /\ UNCHANGED built
    /\ loading' = Idle
    /\ UNCHANGED <<required_lints, ready, libraries, memfds, generations>>
    /\ UNCHANGED <<targetVars, pipelineVars, parseVars>>

\* the artifact of a built state comes to be where crate::generation finds
\* it: from then on its generation counts as used
ArtifactStored(state_built) ==
    /\ BagIn(state_built, built)
    /\ NeedsGenerations(host)
    /\ LET name == state_built.shared_object.path[3]
       IN  /\ name.generation \notin generations[name.crate_name]
           /\ generations' = [generations EXCEPT ![name.crate_name] =
                                                     @ \cup {name.generation}]
    /\ UNCHANGED <<required_lints, ready, libraries, memfds, lastLoad, loading, built>>
    /\ UNCHANGED <<pipelineVars, targetVars, parseVars>>

\* the number the kernel gives a new descriptor: the lowest one that is not
\* open in the process. Open are the Memfds held and the descriptors the
\* process has besides them (other_fds); 0, 1 and 2 are the standard streams.
\* A library that is mapped keeps no descriptor number
LowestFreeFd(other_fds) ==
    LET fds == 3..(4 + MaxReady)
        open == memfds \cup other_fds
    IN  CHOOSE n \in fds : n \notin open /\ \A m \in fds : m \notin open => n <= m

\* the bytes handed to load: the shared object as built, or damaged in storage
Damages == {"none", "image", "symbol"}
SharedObjectBytes(shared_object, damage) ==
    IF damage = "image" THEN [shared_object EXCEPT !.image_ok = FALSE]
    ELSE IF damage = "symbol" THEN [shared_object EXCEPT !.symbols = {}]
    ELSE shared_object

\* the calls of load that return early on an I/O error (each is followed by ?)
\* before the library is opened: memfd create, set_len, add_seals and write_all
\* where the shared object goes to a memfd, tempfile_in and fs::write elsewhere
LoadFaults(h) ==
    IF h.os = "linux" THEN {"memfd_create", "set_len", "add_seals", "write_all"}
    ELSE {"tempfile_in", "write"}

\* dlopen of a file name. The loader knows the objects it has mapped by the
\* name they were opened under: for a name it has an object under it returns
\* that object and does not read the file; otherwise it maps the file, which
\* fails when the bytes are no shared object. kept tells that the object
\* stays mapped whatever is closed, leaked that a handle on it was given up
\* without being closed
dlopen(filename, shared_object) ==
    IF \E l \in libraries : l.name = filename
        THEN [ok |-> CHOOSE l \in libraries : l.name = filename]
    ELSE IF ~shared_object.image_ok THEN [err |-> "dlopen"]
    ELSE [ok |-> [name |-> filename, path |-> shared_object.path,
                  symbols |-> shared_object.symbols, kept |-> FALSE,
                  leaked |-> FALSE]]

\* the objects mapped after dlclose of the handle a FnReady or a load has on
\* the object of the given name (no two of them have a handle on one object:
\* a name is given again only when its descriptor was closed). A dlclose that
\* succeeds unmaps the object unless it is kept; a handle dlclose failed on is
\* never closed (Library::close and Drop give it up), so the object stays
dlclose(filename, closed) ==
    LET object == CHOOSE l \in libraries : l.name = filename
    IN  IF closed THEN (IF object.kept THEN libraries ELSE libraries \ {object})
        ELSE (libraries \ {object})
                 \cup {[object EXCEPT !.kept = TRUE, !.leaked = TRUE]}

\* FnReady::load up to its return or, when the symbol is missing, up to the
\* point where its locals (library, file_holder) are about to be dropped.
\* fault is the call that fails with an I/O error (none: "none"); a Memfd made
\* before the failing call is dropped by the early return. The library is
\* opened by name: /proc/self/fd/<raw_fd> (the name is raw_fd here), or the
\* path of a temporary file, a name no mapped object has. The symbol is
\* looked up in the object dlopen returned. file_holder 0 is the unit value
\* of the platforms without memfd
FnReady_load(pg_proc_xmin, fn_oid, shared_object, fault, other_fds) ==
    /\ LET linux == host.os = "linux"
           raw_fd == LowestFreeFd(other_fds)
           names == 3..(4 + MaxReady + MaxLeaked)
           temp_so_file == CHOOSE n \in names :
                               /\ \A l \in libraries : l.name # n
                               /\ \A m \in names :
                                      (\A l \in libraries : l.name # m) => n <= m
           filename == IF linux THEN raw_fd ELSE temp_so_file
           opened == dlopen(filename, shared_object)
           latest == IF NeedsGenerations(host)
                         THEN unwrap_or_default(latest_generation(crate_name(fn_oid)))
                         ELSE -1
           symbol_name == Wrapper(Generation(crate_name(fn_oid), latest))
           about == [op |-> "load", fn |-> fn_oid, lints |-> required_lints,
                     symbol_name |-> symbol_name]
       IN  IF fault # "none"
               THEN /\ lastLoad' = about @@ [result |-> "err", why |-> fault]
                    /\ UNCHANGED <<ready, libraries, memfds, loading>>
           ELSE IF ~IsOk(opened)
               THEN /\ lastLoad' = about @@ [result |-> "err", why |-> opened.err]
                    /\ UNCHANGED <<ready, libraries, memfds, loading>>
           ELSE IF symbol_name \notin opened.ok.symbols
               THEN /\ libraries' = libraries \cup {opened.ok}
                    /\ memfds' = IF linux THEN memfds \cup {raw_fd} ELSE memfds
                    /\ loading' = [pc |-> "drop_library", library |-> filename,
                                   file_holder |-> IF linux THEN raw_fd ELSE 0,
                                   then |-> about @@ [result |-> "err", why |-> "dlsym"]]
                    /\ UNCHANGED <<ready, lastLoad>>
           ELSE /\ libraries' = libraries \cup {opened.ok}
                /\ memfds' = IF linux THEN memfds \cup {raw_fd} ELSE memfds
                /\ ready' = ready \cup {[pg_proc_xmin |-> pg_proc_xmin,
                                          fn_oid |-> fn_oid,
                                          symbol_name |-> symbol_name,
                                          library |-> filename,
                                          file_holder |-> IF linux THEN raw_fd ELSE 0]}
                /\ lastLoad' = about @@ [result |-> "ok", fd |-> filename,
                                         opened |-> opened.ok.path]
                /\ UNCHANGED loading
    /\ UNCHANGED <<required_lints, generations>>
    /\ UNCHANGED <<pipelineVars, targetVars, parseVars>>

\* StateBuilt::load(self): the built state is moved into the call, and the
\* bytes at its path are handed to the loader (FnReady::load stands for
\* StateLoaded::load)
StateBuilt_load(self, pg_proc_xmin, damage, fault, other_fds) ==
    /\ BagIn(self, built)
    /\ built' = built (-) SetToBag({self})
    /\ FnReady_load(pg_proc_xmin, self.fn_oid,
                    SharedObjectBytes(self.shared_object, damage), fault, other_fds)

\* evaluate(&self, fcinfo): the symbol is called, which runs the code of the
\* object the library handle stands for. tls tells whether the code registers
\* a destructor for a thread-local on the way: the loader keeps an object
\* with such a destructor mapped from then on
FnReady_evaluate(self, tls) ==
    /\ self \in ready
    /\ LET object == CHOOSE l \in libraries : l.name = self.library
       IN  /\ libraries' = IF tls THEN (libraries \ {object})
                                           \cup {[object EXCEPT !.kept = TRUE]}
                           ELSE libraries
           /\ lastLoad' = [op |-> "evaluate", fn |-> self.fn_oid,
                           symbol_name |-> self.symbol_name, ran |-> object.path]
    /\ UNCHANGED <<required_lints, ready, memfds, loading, built, generations>>
    /\ UNCHANGED <<pipelineVars, targetVars, parseVars>>

\* close(self) up to the return of library.close()?, where closed tells
\* whether dlclose succeeded: Library::close gives up the handle either way,
\* and on Err close returns early. What is left of self (the file holder) is
\* dropped when close returns
FnReady_close(self, closed) ==
    /\ self \in ready
    /\ libraries' = dlclose(self.library, closed)
    /\ loading' = [pc |-> "drop_file_holder", library |-> self.library,
                   file_holder |-> self.file_holder,
                   then |-> IF closed
                                THEN [op |-> "close", fn |-> self.fn_oid, result |-> "ok"]
                                ELSE [op |-> "close", fn |-> self.fn_oid,
                                      result |-> "err", why |-> "dlclose"]]
    /\ ready' = ready \ {self}
    /\ UNCHANGED <<required_lints, memfds, lastLoad, built, generations>>
    /\ UNCHANGED <<pipelineVars, targetVars, parseVars>>

\* drop of the Library local of a load that failed: Drop calls dlclose and
\* ignores its result
DropLibrary(closed) ==
    /\ loading.pc = "drop_library"
    /\ libraries' = dlclose(loading.library, closed)
    /\ loading' = [loading EXCEPT !.pc = "drop_file_holder"]
    /\ UNCHANGED <<required_lints, ready, memfds, lastLoad, built, generations>>
    /\ UNCHANGED <<pipelineVars, targetVars, parseVars>>

\* drop of the Memfd: the descriptor is closed; load or close returns
DropFileHolder ==
    /\ loading.pc = "drop_file_holder"
    /\ memfds' = memfds \ {loading.file_holder}
    /\ lastLoad' = loading.then
    /\ loading' = Idle
    /\ UNCHANGED <<required_lints, ready, libraries, built, generations>>
    /\ UNCHANGED <<pipelineVars, targetVars, parseVars>>

\* the pg_proc.xmin values a load is called with: an older and a newer row
LoadXmins == {1, 2}

\* the choices (dlclose results, thread-local registrations) taken of those
\* given: all of them while few objects are kept mapped, past that only the
\* one that keeps no further object (none)
DlcloseResults(choices, none) ==
    IF Cardinality({l \in libraries : l.kept}) < MaxLeaked THEN choices ELSE {none}

\* the calls of one backend over the given functions, lint lists, pg_proc
\* versions, dlclose results, I/O faults of load, thread-local registrations
\* and sets of descriptors the process has open besides the Memfds. A call is
\* made when the one before it has returned; the number of built states, of
\* generations and of loaded functions is capped
LoaderSteps(fns, lint_lists, xmins, closes, faults, tlss, fdsets) ==
    \/ \E lints \in lint_lists : loading = Idle /\ SetRequiredLints(lints)
    \/ \E f \in fns :
           /\ loading = Idle
           /\ BagCardinality(built) < MaxBuilt
           /\ unwrap_or_default(next_generation(crate_name(f))) <= MaxGen
           /\ StateProvisioned_build(f)
    \/ StateProvisioned_build_returns
    \/ \E state_built \in BagToSet(built), x \in xmins, damage \in Damages,
          fault \in {"none"} \cup faults,
          other_fds \in {fds \in fdsets : fds \cap memfds = {}} :
           /\ loading = Idle
           /\ Cardinality(ready) < MaxReady
           /\ StateBuilt_load(state_built, x, damage, fault, other_fds)
    \/ \E r \in ready, tls \in DlcloseResults(tlss, FALSE) :
           loading = Idle /\ FnReady_evaluate(r, tls)
    \/ \E r \in ready, closed \in DlcloseResults(closes, TRUE) :
           loading = Idle /\ FnReady_close(r, closed)
    \/ \E closed \in DlcloseResults(closes, TRUE) : DropLibrary(closed)
    \/ DropFileHolder

\* build, load, run and close of two functions whose code registers no
\* thread-local destructor, where dlclose succeeds: no object is kept mapped
\* plrust.required_lints is set to nothing, to one lint or to the built-in list
NextLoader ==
    LoaderSteps(Fns, {{}, {"unknown_lints"}, BUILTIN_LINTS}, LoadXmins, {TRUE},
                LoadFaults(host), {FALSE}, {{}})

\* the same where the code may register a thread-local destructor, dlclose
\* may fail and descriptor 3 may be open already: objects are kept mapped
\* after their close
NextClose ==
    LoaderSteps(Fns, {BUILTIN_LINTS}, LoadXmins, BOOLEAN, {}, BOOLEAN, {{}, {3}})

\* reloads of one function whose artifacts come to be in the store
NextReload ==
    \/ LoaderSteps({"f1"}, {BUILTIN_LINTS}, {1}, {TRUE}, {}, BOOLEAN, {{}})
    \/ \E state_built \in BagToSet(built) : ArtifactStored(state_built)

\* the hosts that differ in how a library is built and loaded: memfd or
\* temporary file, generations or none, target resolved or not
LoaderHosts == {h \in Hosts : /\ h.os \in {"linux", "macos"}
                              /\ h.os = "linux" => ~h.target_postgrestd \/ h.env = "musl"}

InitLoader == \E h \in LoaderHosts : InitOn(h)

SpecLoader == InitLoader /\ [][NextLoader]_vars
SpecClose == InitLoader /\ [][NextClose]_vars
SpecReload == InitLoader /\ [][NextReload]_vars

(***************************************************************************)
(* parse_source_and_deps on its own                                        *)
(***************************************************************************)
Trailing(s) == [pre |-> FALSE, text |-> s, post |-> TRUE]

\* the lines a stored source text is made of
SourceLines == {Ln("a"), Indented("b"), Trailing("c"), Ln(""),
                Ln("[dependencies]"), Indented("[dependencies]"), Ln("[code]")}

SourceTexts == UNION {[1..n -> SourceLines] : n \in 0..MaxLines}

ParseSource(code) ==
    /\ parseInput' = code
    /\ parseResult' = parse_source_and_deps(code)
    /\ UNCHANGED <<pipelineVars, loaderVars, targetVars>>

NextParse == \E code \in SourceTexts : ParseSource(code)

SpecParse == Init /\ [][NextParse]_vars

\* the steps over the given functions, definitions and builders. The call
\* handler is entered for functions pg_proc has a row for. A backend serves
\* one request at a time: when nested is FALSE an invocation or an unload
\* starts only when no call is in flight; when nested is TRUE they are also
\* reached from inside a call that is executing (one level deep). The instance
\* is made before the arguments are looked at: a failure to make it is taken
\* with one argument list, the one of nulls
NextOver(fns, defs, bs, nested) ==
    \/ \E f \in fns, d \in defs : CreateOrReplaceFunction(f, d)
    \/ \E b \in bs, f \in fns : CompileStart(b, f)
    \/ \E b \in bs : WriteCargoToml(b)
    \/ \E b \in bs : CreateLibRs(b)
    \/ \E b \in bs : WriteLibRs(b)
    \/ \E b \in bs : CargoRun(b)
    \/ \E b \in bs : CompileFinish(b)
    \/ \E b \in bs : RenameModule(b)
    \/ \E f \in fns :
           /\ catalog[f] # None
           /\ IF call = Idle THEN TRUE ELSE nested /\ call.outer = Idle
           /\ \E fcinfo \in ArgsFor(catalog[f].proargtypes), instantiated \in BOOLEAN :
                  /\ IF instantiated THEN TRUE
                     ELSE fcinfo = NullArgs(catalog[f].proargtypes)
                  /\ \E junk \in JunkFor(f, fcinfo) :
                         execute_wasm_function(f, fcinfo, junk, instantiated)
    \/ execute_wasm_function_return
    \/ \E f \in fns : (IF call = Idle THEN TRUE ELSE nested) /\ unload_function(f)

\* dispatch: two functions, two definitions that build, one build at a time
Next == NextOver(Fns, {DefAdd, DefIdent}, {"b1"}, FALSE)
Spec == Init /\ [][Next]_vars

\* concurrent builds: two backends compile the same function at once
NextRace == NextOver({"f1"}, {DefIdent}, Builders, FALSE)
SpecRace == Init /\ [][NextRace]_vars

\* policy and mapping: one function, every definition
NextPolicy == NextOver({"f1"}, Definitions, {"b1"}, FALSE)
SpecPolicy == Init /\ [][NextPolicy]_vars

\* re-entry: two functions of different return types, and steps that are
\* reached while a call executes
NextReentry == NextOver(Fns, {DefIdent, DefUpper}, {"b1"}, TRUE)
SpecReentry == Init /\ [][NextReentry]_vars

(***************************************************************************)
(* Properties                                                              *)
(***************************************************************************)
InvokeStep(f) ==
    /\ catalog[f] # None
    /\ call = Idle
    /\ \E fcinfo \in ArgsFor(catalog[f].proargtypes), instantiated \in BOOLEAN :
           \E junk \in JunkChoices : execute_wasm_function(f, fcinfo, junk, instantiated)

HasNullArg(fcinfo) == \E i \in 1..Len(fcinfo) : fcinfo[i] = Null

\* C1: an invocation that runs a module runs the one built from the definition
\* (version token) that is current when the invocation starts, never an
\* earlier definition's module.
C1_InvokeRunsCurrentDefinition ==
    (last.op = "invoke" /\ last.called) => last.ran_xmin = last.cat_xmin

\* C2: an invocation on a cache hit with the current version token calls the
\* cached module and rebuilds nothing; on a miss or a stale token it generates
\* the source of the current definition and puts the current version's module
\* in the cache slot before any call.
C2_InvokeRebuildsOnMissOrStale ==
    [][\A f \in Fns : InvokeStep(f) =>
          LET c == crate_name(f)
              fresh == CACHE[f] # None /\ CACHE[f].module.xmin = catalog[f].xmin
          IN  IF fresh
                  THEN CACHE' = CACHE /\ UNCHANGED <<crates, targetWasm, finalWasm>>
                  ELSE /\ crates'[c] # None /\ crates'[c].xmin = catalog[f].xmin
                       /\ call'.pc = "entry" =>
                             /\ CACHE'[f] # None
                             /\ CACHE'[f].module.xmin = catalog[f].xmin]_vars

\* C3: every function id has at most one Module alive, namely the one in its
\* cache slot; a removed entry's Module is gone when the removal completes.
C3_OneResidentModulePerFunction ==
    /\ \A e \in BagToSet(modules) : CopiesIn(e, modules) = 1
    /\ \A e1, e2 \in BagToSet(modules) : e1.fn = e2.fn => e1 = e2
    /\ \A f \in Fns :
          IF CACHE[f] = None
              THEN \A e \in BagToSet(modules) : e.fn # f
              ELSE BagIn(ModuleId(CACHE[f].module), modules)

C3_Witness ==
    /\ last.op = "unload" /\ last.was_present
    /\ CACHE[last.fn] = None
    /\ \E g \in Fns : CACHE[g] # None

\* C4: unload of a function id empties that id's cache slot and drops its
\* Module, succeeds and changes nothing when the id is absent, and leaves the
\* slots of all other ids as they were.
C4_UnloadRemovesOnlyItsEntry ==
    [][\A f \in Fns : unload_function(f) =>
          /\ CACHE'[f] = None
          /\ \A g \in Fns \ {f} : CACHE'[g] = CACHE[g]
          /\ CACHE[f] = None => (CACHE' = CACHE /\ modules' = modules)
          /\ CACHE[f] # None =>
                /\ ~BagIn(ModuleId(CACHE[f].module), modules')
                /\ \A g \in Fns \ {f} :
                      CACHE[g] # None => BagIn(ModuleId(CACHE[g].module), modules')
          /\ last'.op = "unload"]_vars

C4_Witness ==
    /\ last.op = "unload" /\ ~last.was_present
    /\ \E g \in Fns : CACHE[g] # None

\* C5: an invocation of a strict function with a null argument returns the
\* null result and never calls the module's entry point.
C5_StrictNullShortCircuits ==
    (/\ last.op = "invoke"
     /\ last.is_strict
     /\ HasNullArg(last.args)
     /\ CACHE[last.fn] # None)
        => (~last.called /\ last.outcome = "ok" /\ last.value = Null)

\* C6: no cargo process is spawned on a manifest that names a dependency
\* outside the allow-list.
C6_NoSpawnForDisallowedDependency ==
    \A b \in Builders :
        builders[b].pc \in {"cargo", "exited"} =>
            \A i \in 2..Len(builders[b].manifest.dependencies) :
                DependencyName(builders[b].manifest.dependencies[i])
                    \in PLRUST_ALLOWED_DEPENDENCIES_CONTENTS

DisablesRequiredLint(line) == line.text = "#[allow(unsafe_code)] unsafe fn g() {}"

\* the crate directory holds a lib.rs that was written
HasSource(c) == crates[c] # None /\ IsWritten(crates[c].lib_rs)

\* C7: no generated source is written for a function whose source text holds
\* a directive that disables a required lint.
C7_LintOverrideRejectedAtGeneration ==
    \A c \in CrateNames :
        HasSource(c) =>
            \A i \in 1..Len(crates[c].lib_rs.user_fn.block) :
                ~DisablesRequiredLint(crates[c].lib_rs.user_fn.block[i])

\* C8: a load succeeds only while the required lints include the baseline
\* lint unsafe_code.
C8_LoadRequiresBaselineLints ==
    (lastLoad.op = "load" /\ lastLoad.result = "ok") => "unsafe_code" \in lastLoad.lints

\* the semantic types the marshalling protocol passes: primitives and text
MarshalSupported(oid) == oid \in {"INT4OID", "INT8OID", "TEXTOID"}
RustTypeMarshalSupported(t) == t \in {"i32", "i64", "String"}

\* C9: a definition with a parameter or return type the protocol does not
\* support is never built, and no entry point is called for one.
C9_UnsupportedTypeIsFatal ==
    /\ \A b \in Builders :
          builders[b].pc \in {"cargo", "exited"} =>
              /\ RustTypeMarshalSupported(builders[b].source_code.user_fn.ret)
              /\ \A i \in 1..Len(builders[b].source_code.user_fn.arg_types) :
                    RustTypeMarshalSupported(builders[b].source_code.user_fn.arg_types[i])
    /\ (last.op = "invoke" /\ last.called) =>
          /\ MarshalSupported(CACHE[last.fn].ret_oid)
          /\ \A i \in 1..Len(CACHE[last.fn].arg_oids) :
                MarshalSupported(CACHE[last.fn].arg_oids[i])

\* C10: a call of the current definition with a primitive return type returns
\* the value of the result slot: a + b over int64 called with (2, 3) returns
\* 5, and the identity over a primitive type returns its argument.
C10_PrimitiveReturnPassesThrough ==
    (/\ last.op = "invoke"
     /\ last.called
     /\ last.ran_xmin = last.cat_xmin
     /\ ~HasNullArg(last.args))
        => /\ catalog[last.fn].prosrc = DefAdd.prosrc =>
                 /\ last.outcome = "ok"
                 /\ last.value = IntDatum(last.args[1].v + last.args[2].v)
           /\ catalog[last.fn].prosrc = DefIdent.prosrc =>
                 /\ last.outcome = "ok"
                 /\ last.value = last.args[1]

\* the argument list is the one text value str
IsTextArg(fcinfo, str) ==
    Len(fcinfo) = 1 /\ fcinfo[1].k = "text" /\ fcinfo[1].v = str

\* C11: when the entry point of a function returning text hands back a guest
\* pointer, the host takes the 8-byte little-endian length L found there,
\* decodes exactly the L bytes that start 8 bytes further on, and returns the
\* value the guest encoded; upper-casing "hi" returns "HI".
C11_NonPrimitiveReturnDecoded ==
    (/\ last.op = "invoke"
     /\ "retv" \in DOMAIN last
     /\ last.ret_oid = "TEXTOID"
     /\ last.retv.ty = "I64")
        => LET guest_ptr == last.retv.v
               L == FromLE8(MemRead(last.ret_mem, guest_ptr, 8))
           IN  /\ last.outcome = "ok"
               /\ MemReadable(last.ret_mem, guest_ptr + 8, L)
               /\ bincode_deserialize(MemRead(last.ret_mem, guest_ptr + 8, L))
                      = [some |-> last.value.v]
               /\ last.value = TextDatum(last.guest_retval)
               /\ (last.ran_block = parse_source_and_deps(DefUpper.prosrc).code
                      /\ IsTextArg(last.args, Hi)) => last.value = TextDatum(HI)

C11_Witness ==
    /\ last.op = "invoke"
    /\ "retv" \in DOMAIN last
    /\ last.ret_oid = "TEXTOID"
    /\ IsTextArg(last.args, Hi)
    /\ last.outcome = "ok"
    /\ last.value = TextDatum(HI)

PrimitiveOid(oid) == oid \in {"INT4OID", "INT8OID"}

\* the arguments of arg_oids that are passed by handle
RECURSIVE EncodedCount(_)
EncodedCount(arg_oids) ==
    IF arg_oids = <<>> THEN 0
    ELSE (IF PrimitiveOid(Head(arg_oids)) THEN 0 ELSE 1) + EncodedCount(Tail(arg_oids))

\* C12: the words handed to the entry point are one per parameter of the
\* function, in parameter order; a primitive parameter's word is its value, and
\* every other parameter's word is a pointer to a region the guest allocator
\* returned for exactly the packed length at alignment 8, holding the 8-byte
\* little-endian length of the encoding followed by the encoding.
C12_NonPrimitiveArgumentsMarshalled ==
    (/\ last.op = "invoke"
     /\ "params" \in DOMAIN last
     /\ ArgsInBounds(last.arg_oids, last.args))
        => /\ Len(last.params) = Len(last.arg_oids)
           /\ Len(last.allocs) = EncodedCount(last.arg_oids)
           /\ \A i \in 1..Len(last.arg_oids) :
                 IF PrimitiveOid(last.arg_oids[i])
                     THEN last.params[i] =
                              [ty |-> oid_to_valtype(last.arg_oids[i]).some,
                               v |-> last.args[i].v]
                     ELSE LET enc == bincode_serialize(last.args[i].v)
                              ptr == last.params[i].v
                          IN  /\ last.params[i].ty = "I64"
                              /\ \E k \in 1..Len(last.allocs) :
                                     last.allocs[k] = [len |-> 8 + Len(enc),
                                                       align |-> 8, ptr |-> ptr]
                              /\ MemReadable(last.args_mem, ptr, 8 + Len(enc))
                              /\ MemRead(last.args_mem, ptr, 8) = LE8(Len(enc))
                              /\ MemRead(last.args_mem, ptr + 8, Len(enc)) = enc

C12_Witness ==
    /\ last.op = "invoke"
    /\ "params" \in DOMAIN last
    /\ last.arg_oids = <<"TEXTOID", "INT4OID">>
    /\ ArgsInBounds(last.arg_oids, last.args)
    /\ last.args = <<TextDatum(Hi), IntDatum(3)>>
    /\ last.called
    /\ last.outcome = "ok"
    /\ last.value = IntDatum(3)

\* C13: once a resolution has succeeded every later tuple() returns that same
\* target; a resolution that failed is not kept, so a tuple() made after a
\* failure resolves again and returns what resolution yields at that moment.
C13_TargetMemoizedOnlyOnSuccess ==
    lastTuple.op = "tuple" =>
        /\ IsOk(lastTuple.before) => lastTuple.result = lastTuple.before
        /\ ~IsOk(lastTuple.before) => lastTuple.result = lastTuple.fresh

InFlight(b) == builders[b].pc # "idle"

\* C14: at most one compile of a function id is in flight at a time: two
\* builders that are both between the start and the end of compile_function
\* work on different function ids.
C14_SameIdBuildsExclusive ==
    \A b1, b2 \in Builders :
        (b1 # b2 /\ InFlight(b1) /\ InFlight(b2)) => builders[b1].fn # builders[b2].fn

\* C15: while a call through a cache entry is executing, that entry is in
\* the cache and its Module is alive: no unload or replacement of it happens
\* between the call of the entry point and its return.
C15_NoRemovalDuringCall ==
    call.pc = "entry" =>
        /\ CACHE[call.fn] # None
        /\ ModuleId(CACHE[call.fn].module) = call.module
        /\ BagIn(call.module, modules)

\* the steps of execute_wasm_function: the one that starts an invocation (and
\* ends it when the entry point is not reached) and the one that returns from
\* the entry point
InvokeStarts ==
    /\ call = Idle
    /\ last'.op \in {"invoke", "call"}
    /\ UNCHANGED <<catalog, crates, targetWasm, finalWasm, builders>>
InvokeReturns == call.pc = "entry" /\ call' = Idle

SetupFailures == {"Could not set up module", "cache lookup failed for function oid"}

\* C16: an invocation of f that fails leaves the cache entries of all other
\* function ids as they were; when the module set-up failed f has no entry,
\* and when the failure came later (arguments, type mismatch, trap, result)
\* the entry of f stays in the cache, unchanged if it was there before.
C16_RuntimeErrorFrame ==
    [][/\ InvokeStarts =>
             LET f == last'.fn
             IN  /\ \A g \in Fns \ {f} : CACHE'[g] = CACHE[g]
                 /\ CACHE[f] # None => CACHE'[f] = CACHE[f]
                 /\ (last'.op = "invoke" /\ last'.outcome = "panic") =>
                        IF last'.msg \in SetupFailures
                            THEN CACHE'[f] = None
                            ELSE CACHE'[f] # None
       /\ InvokeReturns =>
             /\ CACHE' = CACHE
             /\ CACHE[call.fn] # None]_vars

C16_Witness ==
    /\ last.op = "invoke"
    /\ last.outcome = "panic"
    /\ last.called
    /\ CACHE[last.fn] # None
    /\ \E g \in Fns \ {last.fn} : CACHE[g] # None

\* C17: in every generated source the entry point has one parameter per
\* parameter of the definition, in the definition's order; a 32-bit or 64-bit
\* integer parameter has the wrapper's by-value type and is passed on as it
\* is, any other parameter is a u64 handle that the entry body deserializes
\* before the wrapper is called; the same holds of the return type, which is
\* serialized and length-prefixed behind a u64 handle when it is not an integer.
C17_EntryTypesFollowDefinition ==
    \A c \in CrateNames :
        HasSource(c) =>
            LET def_args == crates[c].args
                user_fn == crates[c].lib_rs.user_fn
                entry == crates[c].lib_rs.entry
                n == Len(def_args)
            IN  /\ Len(entry.arg_types) = n
                /\ Len(entry.arg_idents) = n
                /\ Len(user_fn.arg_types) = n
                /\ \A i \in 1..n :
                      /\ entry.arg_idents[i] = ArgIdent(def_args[i].name, i - 1)
                      /\ user_fn.arg_idents[i] = entry.arg_idents[i]
                      /\ IF PrimitiveOid(def_args[i].oid)
                             THEN /\ entry.arg_types[i] = user_fn.arg_types[i]
                                  /\ entry.arg_types[i] \in IntTypes
                                  /\ entry.arg_transforms[i] = "ident"
                             ELSE /\ entry.arg_types[i] = "u64"
                                  /\ entry.arg_transforms[i] = "own_unpack_and_deserialize"
                /\ IF PrimitiveOid(crates[c].return_type)
                       THEN /\ entry.ret = user_fn.ret
                            /\ entry.ret \in IntTypes
                            /\ entry.ret_transform = "retval"
                       ELSE /\ entry.ret = "u64"
                            /\ entry.ret_transform = "serialize_pack_and_leak"

C17_Witness ==
    \E c \in CrateNames :
        /\ HasSource(c)
        /\ crates[c].args = <<[oid |-> "TEXTOID", name |-> "s"],
                              [oid |-> "INT4OID", name |-> "n"]>>
        /\ crates[c].lib_rs.entry.arg_types = <<"u64", "i32">>
        /\ crates[c].lib_rs.entry.ret = "i32"

IsMarker(line) == line.text \in {"[dependencies]", "[code]"}

\* the marker that governs line i: the nearest marker line above it, 0 if none
MarkerAbove(ls, i) ==
    IF \E j \in 1..(i - 1) : IsMarker(ls[j])
        THEN CHOOSE j \in 1..(i - 1) :
                 IsMarker(ls[j]) /\ \A k \in (j + 1)..(i - 1) : ~IsMarker(ls[k])
        ELSE 0

InDependencies(ls, i) ==
    MarkerAbove(ls, i) # 0 /\ ls[MarkerAbove(ls, i)].text = "[dependencies]"

\* the lines of ls from i on that are no markers and lie in the dependency
\* section (want_deps) or in the code section, in their order
RECURSIVE SectionLines(_, _, _)
SectionLines(ls, i, want_deps) ==
    IF i > Len(ls) THEN <<>>
    ELSE (IF ~IsMarker(ls[i]) /\ InDependencies(ls, i) = want_deps
              THEN <<ls[i]>> ELSE <<>>) \o SectionLines(ls, i + 1, want_deps)

\* what the lines say, whatever blanks surround them
Texts(ls) == [i \in 1..Len(ls) |-> ls[i].text]

\* C18 as stated: every line of the stored text that is no marker is in exactly
\* one fragment, in its original order: the code fragment when no marker or a
\* [code] marker governs it, the dependency fragment when a [dependencies]
\* marker governs it; no marker line is in a fragment.
C18_EveryLineInOneFragment ==
    parseResult # None =>
        /\ Texts(parseResult.code) = Texts(SectionLines(parseInput, 1, FALSE))
        /\ Texts(parseResult.deps) = Texts(SectionLines(parseInput, 1, TRUE))

\* C18 amended: the same, of the lines of the stored text once the whitespace
\* at both ends of the whole text (blank lines included) is trimmed away.
C18_EveryTrimmedLineInOneFragment ==
    parseResult # None =>
        /\ parseResult.code = SectionLines(TrimLines(parseInput), 1, FALSE)
        /\ parseResult.deps = SectionLines(TrimLines(parseInput), 1, TRUE)

C18_Witness ==
    /\ parseResult # None
    /\ parseInput = <<Ln("[dependencies]"), Ln("a"), Ln("[code]")>>
    /\ parseResult.deps = <<Ln("a")>>
    /\ parseResult.code = <<>>

\* the names of the objects a library handle is open on: the handles of the
\* loaded functions, the one a failing load is about to drop, and the ones
\* given up without being closed
OpenLibraries ==
    {r.library : r \in ready}
        \cup (IF loading.pc = "drop_library" THEN {loading.library} ELSE {})
        \cup {l.name : l \in {k \in libraries : k.leaked}}

\* C19: where the library is loaded from an anonymous memory file, every open
\* library handle has its backing descriptor held, every loaded function's
\* library is open with its descriptor held, and when close (or a failed
\* load) has released the library handle and not yet returned, the descriptor
\* is still held: it is released after the handle, never before
C19_BackingDescriptorHeldWhileOpen ==
    host.os = "linux" =>
        /\ OpenLibraries \subseteq memfds
        /\ \A r \in ready :
               /\ \E l \in libraries : l.name = r.library
               /\ r.file_holder \in memfds
        /\ loading.pc = "drop_library" =>
               /\ \E l \in libraries : l.name = loading.library
               /\ loading.file_holder \in memfds
        /\ loading.pc = "drop_file_holder" =>
               loading.library \notin OpenLibraries /\ loading.file_holder \in memfds

\* the name a build gave the artifact it returned
ArtifactName(state_built) == state_built.shared_object.path[3]

\* C20: on a platform that needs generation-suffixed names, two loaded
\* reloads of one function have resolved distinct symbol names, and a load
\* resolves the wrapper symbol under exactly the name the build that made
\* the built state it consumes gave the artifact
C20_ReloadIncrementsGeneration ==
    [][NeedsGenerations(host) =>
          /\ \A r0, r1 \in ready' :
                 (r0.fn_oid = r1.fn_oid /\ r0 # r1) => r0.symbol_name # r1.symbol_name
          /\ \A state_built \in BagToSet(built) :
                 built' = built (-) SetToBag({state_built}) =>
                     LET outcome == IF loading'.pc = "drop_library" THEN loading'.then
                                    ELSE lastLoad'
                     IN  outcome.symbol_name = Wrapper(ArtifactName(state_built))]_vars

\* the build that last returned ran cargo
BuildRanCargo == lastLoad.op = "build" /\ "output" \in DOMAIN lastLoad

\* C21: a build that ran the toolchain yields, when the toolchain succeeded,
\* the path made of the target, the release directory and the crate name,
\* and when it failed, an error that carries the two captured streams with
\* the generated source after them, and nothing of the artifact path
C21_BuildYieldsPathOrDiagnostics ==
    BuildRanCargo =>
        IF lastLoad.output.status_success
            THEN /\ lastLoad.result = "ok"
                 /\ \E state_built \in BagToSet(built) :
                        /\ state_built.fn_oid = lastLoad.fn
                        /\ state_built.shared_object.path =
                               <<lastLoad.target, "release",
                                 Generation(crate_name(lastLoad.fn), lastLoad.generation)>>
            ELSE /\ lastLoad.result = "err"
                 /\ "target" \notin DOMAIN lastLoad
                 /\ lastLoad.sections = <<"stdout", "stderr", lib_rs_of(lastLoad.fn)>>

\* the compile_function that last returned failed
CompileFailed == last.op = "compile" /\ ~IsOk(last.result)

\* C22 as stated: after a build of f that failed, no artifact is visible
\* under the final name of f
C22_NoArtifactAfterFailedBuild ==
    CompileFailed => finalWasm[crate_name(last.fn)] = None

\* C22: what is visible under a final name changes only by the rename of a
\* compile_function whose toolchain run succeeded and left a module, and it
\* becomes that module; a build that fails leaves under every final name
\* what was there before the build, an earlier build's artifact included
C22_FinalNameChangesOnlyByRename ==
    [][/\ \A c \in CrateNames :
            finalWasm'[c] # finalWasm[c] =>
                /\ \E b \in Builders :
                      /\ builders[b].pc = "rename"
                      /\ crate_name(builders[b].fn) = c
                      /\ builders'[b] = Idle
                /\ targetWasm[c] # None
                /\ finalWasm'[c] = targetWasm[c]
                /\ last'.op = "compile" /\ IsOk(last'.result)
       /\ (last' # last /\ last'.op = "compile" /\ ~IsOk(last'.result)) =>
              finalWasm' = finalWasm]_vars

\* a build of f failed while the artifact of an earlier build of f is
\* published under the final name
C22_Witness ==
    /\ CompileFailed
    /\ "err" \in DOMAIN last.result
    /\ finalWasm[crate_name(last.fn)] # None
    /\ finalWasm[crate_name(last.fn)].xmin < catalog[last.fn].xmin

\* C23: every invocation starts on an instance of its own, whose linear
\* memory is that of a fresh instance with nothing but this call's arguments
\* placed in it, whatever earlier calls left in theirs; the module of a function
\* is set up only by an invocation that finds no cache entry, exactly once,
\* and an invocation that finds the entry runs that module and sets up none
C23_InstancePerCallModulePerEntry ==
    [][InvokeStarts =>
          LET f == last'.fn
              r == IF call'.pc = "entry" THEN call'.result ELSE last'
          IN  /\ IF CACHE[f] # None
                     THEN /\ modules' = modules
                          /\ CACHE' = CACHE
                          /\ call'.pc = "entry" => call'.module = ModuleId(CACHE[f].module)
                     ELSE IF CACHE'[f] # None
                         THEN modules' = modules (+) SetToBag({ModuleId(CACHE'[f].module)})
                         ELSE modules' = modules
              /\ "args_mem" \in DOMAIN r =>
                     /\ SubSeq(r.args_mem, 1, Len(InitialMemory)) = InitialMemory
                     /\ r.allocs # <<>> => r.allocs[1].ptr = Len(InitialMemory)
                     /\ r.allocs = <<>> => r.args_mem = InitialMemory]_vars

\* a call with a text argument runs on the module a previous call set up
C23_Witness ==
    /\ call.pc = "entry"
    /\ call.result.hit
    /\ call.result.allocs # <<>>
    /\ CACHE[call.fn] # None
    /\ CopiesIn(call.module, modules) = 1

\* the names that stand for a target the extension can cross compile to
RecognizedTargets == {"x86_64", "aarch64"}

\* the entries of the configured list: what stands between the commas, trimmed
ConfiguredEntries ==
    LET entries == split(PLRUST_COMPILATION_TARGETS.some)
    IN  [i \in 1..Len(entries) |-> trim(entries[i])]

\* the configured entries that do not name the architecture of the host
ForeignEntries == SelectSeq(ConfiguredEntries, LAMBDA e : e # <<host.arch>>)

\* C24: when the host target resolves and a list is configured, the foreign
\* targets returned are, in order, the trimmed entries that do not name the
\* architecture of the host, so none of them stands for the host; and when one
\* of those entries is not a recognized target, the call fails and returns no
\* list at all
C24_ForeignTargetsExcludeHost ==
    (/\ lastTuple.op = "compilation_targets"
     /\ IsOk(TARGET_TUPLE)
     /\ PLRUST_COMPILATION_TARGETS # None) =>
        IF \E i \in 1..Len(ForeignEntries) :
               \A w \in RecognizedTargets : ForeignEntries[i] # <<w>>
            THEN ~IsOk(lastTuple) /\ lastTuple.err = <<"Unsupported">>
            ELSE /\ IsOk(lastTuple)
                 /\ Len(lastTuple.ok.others) = Len(ForeignEntries)
                 /\ \A i \in 1..Len(ForeignEntries) :
                        /\ <<CrossArch(lastTuple.ok.others[i])>> = ForeignEntries[i]
                        /\ CrossArch(lastTuple.ok.others[i]) # host.arch

\* a list that names the host between blanks and a foreign target resolved
\* to the foreign target alone
C24_Witness ==
    /\ lastTuple.op = "compilation_targets"
    /\ IsOk(lastTuple)
    /\ PLRUST_COMPILATION_TARGETS # None
    /\ \E i \in 1..Len(ConfiguredEntries) :
          /\ ConfiguredEntries[i] = <<host.arch>>
          /\ split(PLRUST_COMPILATION_TARGETS.some)[i] # <<host.arch>>
    /\ Len(lastTuple.ok.others) = 1

\* a step in which a load begins
LoadStarts ==
    /\ loading = Idle
    /\ \/ lastLoad' # lastLoad /\ lastLoad'.op = "load"
       \/ loading'.pc = "drop_library"

\* the function a load that begins in this step is for
LoadStartedFor == IF loading'.pc = "drop_library" THEN loading'.then.fn ELSE lastLoad'.fn

\* C25: a built state comes into being only as the result of a build whose
\* toolchain run reported success, and it is that build's; a load begins
\* only on a built state, is for the function that state was built for and
\* takes that state away, so that it cannot be loaded again; a build that
\* fails adds no built state
C25_StagesConsumedInOrderOnce ==
    [][/\ (\E s \in BagToSet(built') : CopiesIn(s, built') > CopiesIn(s, built)) =>
              /\ lastLoad'.op = "build"
              /\ lastLoad'.result = "ok"
              /\ lastLoad'.output.status_success
              /\ \E s \in BagToSet(built') :
                     /\ s.fn_oid = lastLoad'.fn
                     /\ built' = built (+) SetToBag({s})
       /\ LoadStarts =>
              \E s \in BagToSet(built) :
                  /\ s.fn_oid = LoadStartedFor
                  /\ built' = built (-) SetToBag({s})
       /\ (lastLoad' # lastLoad /\ lastLoad'.op = "build" /\ lastLoad'.result # "ok") =>
              built' = built]_vars

\* a load has consumed the built state of a successful build and the
\* function is loaded; nothing is left to load again
C25_Witness ==
    /\ lastLoad.op = "load"
    /\ lastLoad.result = "ok"
    /\ built = EmptyBag
    /\ \E r \in ready : r.fn_oid = lastLoad.fn /\ r.library = lastLoad.fd

====
